---- MODULE Spec2Model ----
(***************************************************************************)
(* Kinematics and build-volume constraint engine of the delta calculator:  *)
(* GeometryUtils, BuildPlateConstraintCalculator and DeltaCalculations.    *)
(*                                                                         *)
(* Numbers.  The program computes in IEEE doubles.  Here a length is an    *)
(* integer count of 1/Scale mm, a sine or cosine is an integer count of    *)
(* 1/TrigDen, and every operation that rounds in the program (a product    *)
(* with a sine or cosine, a quotient, a square root) rounds to the nearest *)
(* unit.  Sums, differences, comparisons and products of two lengths are   *)
(* exact.  NaN is a reserved value; arithmetic propagates it and every     *)
(* comparison with it is false, as in the program.                         *)
(*                                                                         *)
(* Evaluation.  The program evaluates an argument or a local once and then *)
(* uses its value.  Where a value is used more than once, the definitions  *)
(* below bind it the same way, as x \in {e}: CHOOSE r \in {f(x) : x \in {e}} *)
(* : TRUE is f(e) with e evaluated once.                                   *)
(***************************************************************************)
EXTENDS Integers, Sequences, FiniteSets, TLC

\* Units per millimetre (a multiple of 20 keeps x/2 and 0.9*x exact for the
\* half-millimetre values the configuration holds).
Scale == 4 * 5

Mm(n) == n * Scale

\* Denominator of the sines and cosines.
TrigDen == 100 * 100

NaN == -999999999

isNaN(a) == a = NaN

----------------------------------------------------------------------------
\* Arithmetic of the program's numbers.

\* a / b rounded to the nearest integer, halves away from 0 (b > 0)
RoundDiv(a, b) ==
    CHOOSE r \in {IF x < 0 THEN -((2 * (-x) + y) \div (2 * y)) ELSE (2 * x + y) \div (2 * y) :
                     x \in {a}, y \in {b}} : TRUE

Plus(a, b) == CHOOSE r \in {IF isNaN(x) \/ isNaN(y) THEN NaN ELSE x + y : x \in {a}, y \in {b}} : TRUE

Minus(a, b) == CHOOSE r \in {IF isNaN(x) \/ isNaN(y) THEN NaN ELSE x - y : x \in {a}, y \in {b}} : TRUE

GE(a, b) == \E x \in {a}, y \in {b} : ~isNaN(x) /\ ~isNaN(y) /\ x >= y

LE(a, b) == \E x \in {a}, y \in {b} : ~isNaN(x) /\ ~isNaN(y) /\ x =< y

GT(a, b) == \E x \in {a}, y \in {b} : ~isNaN(x) /\ ~isNaN(y) /\ x > y

LT(a, b) == \E x \in {a}, y \in {b} : ~isNaN(x) /\ ~isNaN(y) /\ x < y

MathMin(a, b) ==
    CHOOSE r \in {IF isNaN(x) \/ isNaN(y) THEN NaN ELSE IF x < y THEN x ELSE y :
                     x \in {a}, y \in {b}} : TRUE

MathMax(a, b) ==
    CHOOSE r \in {IF isNaN(x) \/ isNaN(y) THEN NaN ELSE IF x > y THEN x ELSE y :
                     x \in {a}, y \in {b}} : TRUE

Abs(a) == CHOOSE r \in {IF x < 0 THEN -x ELSE x : x \in {a}} : TRUE

\* Newton's iteration from above for the floor of a square root; the next
\* iterate y is bound as a value before it is used.
RECURSIVE SqrtIter(_, _)
SqrtIter(n, x) ==
    CHOOSE r \in {IF y >= x THEN x ELSE SqrtIter(n, y) : y \in {(x + n \div x) \div 2}} : TRUE

\* floor of the square root of n >= 0
FloorSqrt(n) ==
    CHOOSE r \in {IF m < 2 THEN m ELSE SqrtIter(m, m \div 2 + 1) : m \in {n}} : TRUE

\* Math.sqrt: NaN for a negative (or NaN) argument, else the root rounded to
\* the nearest unit.
MathSqrt(n) ==
    CHOOSE r \in {IF isNaN(m) \/ m < 0 THEN NaN
                  ELSE CHOOSE q \in {IF m - f * f > f THEN f + 1 ELSE f : f \in {FloorSqrt(m)}} : TRUE :
                     m \in {n}} : TRUE

\* Math.sin(angle) * v and Math.cos(angle) * v, the sine or cosine t given in
\* 1/TrigDen.
MulTrig(t, v) ==
    CHOOSE r \in {IF isNaN(w) THEN NaN ELSE RoundDiv(t * w, TrigDen) : w \in {v}} : TRUE

----------------------------------------------------------------------------
\* MathUtils

clamp(value, min, max) == MathMax(min, MathMin(max, value))

distance2D(x1, z1, x2, z2) ==
    CHOOSE r \in {MathSqrt(dx * dx + dz * dz) : dx \in {x2 - x1}, dz \in {z2 - z1}} : TRUE

----------------------------------------------------------------------------
\* GeometryUtils.  PI2 is 2*pi, so towerIndex * (PI2 / 3) + (PI2 / 6) is
\* 60, 180 and 300 degrees for towers 0, 1, 2.

Towers == 0 .. 2

\* Math.sin(towerIndex * (PI2 / 3) + (PI2 / 6)), in 1/TrigDen
SinTower(towerIndex) == CASE towerIndex = 0 -> 8660
                          [] towerIndex = 1 -> 0
                          [] towerIndex = 2 -> -8660

\* Math.cos(towerIndex * (PI2 / 3) + (PI2 / 6)), in 1/TrigDen
CosTower(towerIndex) == CASE towerIndex = 0 -> 5000
                          [] towerIndex = 1 -> -10000
                          [] towerIndex = 2 -> 5000

calculateTowerPosition(towerIndex, radius) ==
    [x |-> MulTrig(SinTower(towerIndex), radius),
     y |-> 0,
     z |-> MulTrig(CosTower(towerIndex), radius)]

\* A variant of calculateArmPosition whose sign does not alternate.
calculateArmPositionSameSide(armIndex, radius, spacing, centerOnly) ==
    LET towerIndex == armIndex \div 2
        offset == RoundDiv(spacing, 2)
        basePos == calculateTowerPosition(towerIndex, radius)
    IN  IF centerOnly \/ spacing = 0
        THEN [x |-> MulTrig(SinTower(towerIndex), radius),
              y |-> 0,
              z |-> MulTrig(CosTower(towerIndex), radius)]
        ELSE [x |-> basePos.x + MulTrig(CosTower(towerIndex), offset),
              y |-> basePos.y,
              z |-> basePos.z + MulTrig(-SinTower(towerIndex), offset)]

\* Math.sin and Math.cos of baseAngle + PI2 / 4 are cos and -sin of baseAngle.
calculateArmPosition(armIndex, radius, spacing, centerOnly) ==
    LET towerIndex == armIndex \div 2
        sign == IF armIndex % 2 # 0 THEN -1 ELSE 1
        offset == RoundDiv(sign * spacing, 2)
        basePos == calculateTowerPosition(towerIndex, radius)
    IN  IF centerOnly \/ spacing = 0
        THEN [x |-> MulTrig(SinTower(towerIndex), radius),
              y |-> 0,
              z |-> MulTrig(CosTower(towerIndex), radius)]
        ELSE [x |-> basePos.x + MulTrig(CosTower(towerIndex), offset),
              y |-> basePos.y,
              z |-> basePos.z + MulTrig(-SinTower(towerIndex), offset)]

----------------------------------------------------------------------------
\* Program constants (constants.ts, DEFAULT_DELTA_CONFIG), in millimetres.

EFFECTOR_HEIGHT == 10

PLATFORM_HEIGHT == 10

----------------------------------------------------------------------------
\* BuildPlateConstraintCalculator.  c is the calculator's state:
\* [config, physicalBedRadius, constraintType, towerCollisionOffset].

ConstraintTypes == {"effector-edge", "effector-tip", "horizontal-extrusions"}

\* Math.cos(towerIndex * 120 * Math.PI / 180), in 1/TrigDen
CosConstraintTower(towerIndex) == CASE towerIndex = 0 -> 10000
                                    [] towerIndex = 1 -> -5000
                                    [] towerIndex = 2 -> -5000

\* Math.sin(towerIndex * 120 * Math.PI / 180), in 1/TrigDen
SinConstraintTower(towerIndex) == CASE towerIndex = 0 -> 0
                                    [] towerIndex = 1 -> 8660
                                    [] towerIndex = 2 -> -8660

newConstraintCalculator(config, physicalBedRadius) ==
    [config |-> config,
     physicalBedRadius |-> physicalBedRadius,
     constraintType |-> "effector-edge",
     towerCollisionOffset |-> Mm(10)]

calculateRequiredCarriageY(c, towerIndex, effectorPos) ==
    LET armLength == c.config.arm_length
        towerRadius == c.config.bot_radius
        carriageInset == c.config.carriage_inset
        carriageX == MulTrig(CosConstraintTower(towerIndex), towerRadius - carriageInset)
        carriageZ == MulTrig(SinConstraintTower(towerIndex), towerRadius - carriageInset)
        deltaX == carriageX - effectorPos.x
        deltaZ == carriageZ - effectorPos.z
        horizontalDistanceSquared == deltaX * deltaX + deltaZ * deltaZ
    IN  IF horizontalDistanceSquared > armLength * armLength
        THEN NaN
        ELSE Plus(effectorPos.y,
                  MathSqrt(armLength * armLength - horizontalDistanceSquared))

minCarriageY(c) == -(c.config.bot_height \div 2) + c.config.carriage_height \div 2

\* A variant of maxCarriageY that takes off the whole carriage height.
maxCarriageYFullHeight(c) == c.config.bot_height \div 2 - c.config.carriage_height

maxCarriageY(c) == c.config.bot_height \div 2 - c.config.carriage_height \div 2

\* The body of the inner loop for one tower: the carriage position required
\* at testRadius is a number within the carriage travel.
carriageValid(c, tower, testRadius) ==
    LET testY == minCarriageY(c) + Mm(50)
        effectorX == MulTrig(CosConstraintTower(tower), testRadius)
        effectorZ == MulTrig(SinConstraintTower(tower), testRadius)
    IN  \E carriageY \in {calculateRequiredCarriageY(c, tower,
                                [x |-> effectorX, y |-> testY, z |-> effectorZ])} :
            ~(isNaN(carriageY) \/ carriageY < minCarriageY(c) \/ carriageY > maxCarriageY(c))

allCarriagesValid(c, testRadius) == \A tower \in Towers : carriageValid(c, tower, testRadius)

testStep == Mm(5)

maxTestRadius(c) == c.config.bot_radius + Mm(50)

\* The outer loop, for (testRadius = 0; testRadius <= maxTestRadius;
\* testRadius += testStep): its iterations are numbered from 0, iteration i
\* tests i * testStep, and lastIteration is the last one the condition lets
\* in.  The loop's state is maxValidRadius and whether break has left it.
lastIteration(c) == maxTestRadius(c) \div testStep

loopStart == [maxValidRadius |-> 0, left |-> FALSE]

\* A variant of radiusSearch that goes on after a radius that is not valid.
RECURSIVE radiusSearchNoBreak(_, _, _, _)
radiusSearchNoBreak(c, first, last, loop) ==
    IF first > last THEN loop
    ELSE IF first = last
         THEN IF allCarriagesValid(c, first * testStep)
              THEN [loop EXCEPT !.maxValidRadius = first * testStep]
              ELSE loop
         ELSE CHOOSE r \in
                  {radiusSearchNoBreak(c, (first + last) \div 2 + 1, last, half) :
                      half \in {radiusSearchNoBreak(c, first, (first + last) \div 2, loop)}} : TRUE

\* The iterations first .. last of the outer loop, entered in the state
\* loop: the first half of them, then the second half.
RECURSIVE radiusSearch(_, _, _, _)
radiusSearch(c, first, last, loop) ==
    IF first > last \/ loop.left THEN loop
    ELSE IF first = last
         THEN IF allCarriagesValid(c, first * testStep)
              THEN [loop EXCEPT !.maxValidRadius = first * testStep]
              ELSE [loop EXCEPT !.left = TRUE]
         ELSE CHOOSE r \in
                  {radiusSearch(c, (first + last) \div 2 + 1, last, half) :
                      half \in {radiusSearch(c, first, (first + last) \div 2, loop)}} : TRUE

\* The loop reads this.config, the calculator's state at the call.
calculateCarriageConstrainedRadius(c) ==
    CHOOSE maxValidRadius \in
        {radiusSearch(this, 0, lastIteration(this), loopStart).maxValidRadius :
            this \in {c}} : TRUE

\* A variant of calculateEffectorEdgeConstraint without the floor at 0.
calculateEffectorEdgeConstraintNoFloor(c) ==
    LET towerEdgeRadius == c.config.bot_radius - c.config.rod_radius
        maxRadius == towerEdgeRadius - c.config.effector_radius - c.towerCollisionOffset
    IN  MathMin(maxRadius, calculateCarriageConstrainedRadius(c))

\* A variant of calculateEffectorEdgeConstraint that adds the effector's radius
\* instead of taking it off.
calculateEffectorEdgeConstraintPlusEffector(c) ==
    LET towerEdgeRadius == c.config.bot_radius - c.config.rod_radius
        maxRadius == towerEdgeRadius + c.config.effector_radius - c.towerCollisionOffset
    IN  MathMax(0, MathMin(maxRadius, calculateCarriageConstrainedRadius(c)))

calculateEffectorEdgeConstraint(c) ==
    LET towerEdgeRadius == c.config.bot_radius - c.config.rod_radius
        maxRadius == towerEdgeRadius - c.config.effector_radius - c.towerCollisionOffset
    IN  MathMax(0, MathMin(maxRadius, calculateCarriageConstrainedRadius(c)))

\* A variant of calculateEffectorTipConstraint that also keeps the effector's
\* radius away from the tower.
calculateEffectorTipConstraintWithEffector(c) ==
    LET towerEdgeRadius == c.config.bot_radius - c.config.rod_radius
        maxRadius == towerEdgeRadius - c.config.effector_radius - c.towerCollisionOffset
    IN  MathMax(0, MathMin(maxRadius, calculateCarriageConstrainedRadius(c)))

\* A variant of calculateEffectorTipConstraint that adds the collision offset
\* instead of taking it off.
calculateEffectorTipConstraintPlusOffset(c) ==
    LET towerEdgeRadius == c.config.bot_radius - c.config.rod_radius
        maxRadius == towerEdgeRadius + c.towerCollisionOffset
    IN  MathMax(0, MathMin(maxRadius, calculateCarriageConstrainedRadius(c)))

calculateEffectorTipConstraint(c) ==
    LET towerEdgeRadius == c.config.bot_radius - c.config.rod_radius
        maxRadius == towerEdgeRadius - c.towerCollisionOffset
    IN  MathMax(0, MathMin(maxRadius, calculateCarriageConstrainedRadius(c)))

calculateHorizontalExtrusionConstraint(c) ==
    LET extrusionThickness == Mm(20)
        maxRadius == c.config.bot_radius - extrusionThickness - c.towerCollisionOffset
    IN  MathMax(0, MathMin(maxRadius, calculateCarriageConstrainedRadius(c)))

calculateRealBuildPlateRadius(c) ==
    CASE c.constraintType = "effector-edge" -> calculateEffectorEdgeConstraint(c)
      [] c.constraintType = "effector-tip" -> calculateEffectorTipConstraint(c)
      [] c.constraintType = "horizontal-extrusions" -> calculateHorizontalExtrusionConstraint(c)
      [] OTHER -> calculateEffectorEdgeConstraint(c)

\* getCarriageConstraintAnalysis().maxRadius
getCarriageConstraintAnalysisMaxRadius(c) == calculateCarriageConstrainedRadius(c)

setConstraintType(c, type) == [c EXCEPT !.constraintType = type]

setPhysicalBedRadius(c, radius) == [c EXCEPT !.physicalBedRadius = radius]

\* this.config = { ...this.config, ...newConfig }: newConfig is a function
\* from some of the field names to their new values.
mergeConfig(config, newConfig) ==
    [f \in DOMAIN config |-> IF f \in DOMAIN newConfig THEN newConfig[f] ELSE config[f]]

constraintCalculatorUpdateConfig(c, newConfig) ==
    [c EXCEPT !.config = mergeConfig(c.config, newConfig)]

----------------------------------------------------------------------------
\* DeltaCalculations.  Its state is the three variables config, buildConfig
\* and constraintCalculator; the operators below take the parts they read.

\* updateConfig: the new config and the calculator after it.
updateConfig(cfg, c, newConfig) ==
    [config |-> mergeConfig(cfg, newConfig),
     constraintCalculator |-> constraintCalculatorUpdateConfig(c, newConfig)]

\* updateBuildConfig: the new buildConfig and the calculator after it.
updateBuildConfig(bcfg, c, newBuildConfig) ==
    LET c1 == IF "physical_bed_radius" \in DOMAIN newBuildConfig
              THEN setPhysicalBedRadius(c, newBuildConfig.physical_bed_radius)
              ELSE c
        c2 == IF "constraint_type" \in DOMAIN newBuildConfig
              THEN setConstraintType(c1, newBuildConfig.constraint_type)
              ELSE c1
    IN  [buildConfig |-> mergeConfig(bcfg, newBuildConfig),
         constraintCalculator |-> c2]

\* A variant of calculateOptimalArmLength that applies the minimum first and
\* the limit of the vertical space last.
calculateOptimalArmLengthCapLast(cfg) ==
    LET br == cfg.bot_radius
        bh == cfg.bot_height
        ch == cfg.carriage_height
        calculatedArmLength == br * 2 - cfg.effector_radius * 2 - cfg.carriage_inset + ch
        minArmLength == RoundDiv(br * 8, 10)
        raised == IF calculatedArmLength < minArmLength
                  THEN minArmLength ELSE calculatedArmLength
        maxVerticalLength == bh - ch \div 2
    IN  IF raised > maxVerticalLength THEN maxVerticalLength ELSE raised

calculateOptimalArmLength(cfg) ==
    LET br == cfg.bot_radius
        bh == cfg.bot_height
        ch == cfg.carriage_height
        calculatedArmLength == br * 2 - cfg.effector_radius * 2 - cfg.carriage_inset + ch
        maxVerticalLength == bh - ch \div 2
        capped == IF calculatedArmLength > maxVerticalLength
                  THEN maxVerticalLength ELSE calculatedArmLength
        minArmLength == RoundDiv(br * 8, 10)
    IN  IF capped < minArmLength THEN minArmLength ELSE capped

\* calculateTowerAngles, in degrees: Math.PI / 6 is 30 degrees and
\* 2 * Math.PI / 3 is 120 degrees.
calculateTowerAngles == <<30, 30 + 120, 30 + 240>>

calculateKinematicLimit(cfg) ==
    LET towerToCarriage == cfg.bot_radius - cfg.carriage_inset
    IN  MathMax(0, towerToCarriage + cfg.arm_length - cfg.effector_radius - Mm(10))

calculateBuildHeight(cfg) ==
    LET halfHeight == cfg.bot_height \div 2
        effectorEndstopZ == halfHeight - cfg.arm_length - cfg.carriage_height \div 2
        effectorZeroZ == -halfHeight + Mm(EFFECTOR_HEIGHT) \div 2
    IN  MathMax(0, effectorEndstopZ - effectorZeroZ)

\* The calculator as calculateBuildVolume leaves it (lines 92-93).
syncedCalculator(cfg, bcfg, c) ==
    setConstraintType(constraintCalculatorUpdateConfig(c, cfg), bcfg.constraint_type)

isWithinTolerance(value, target, tolerance) == Abs(value - target) =< tolerance

\* A variant of calculateBuildVolume whose radii the physical bed limits too.
calculateBuildVolumeBedLimited(cfg, bcfg, c) ==
    CHOOSE buildVolume \in
        {[maxPrintRadius |-> maxPrintRadius,
          recommendedPrintRadius |-> RoundDiv(maxPrintRadius * 9, 10),
          buildVolumeHeight |-> calculateBuildHeight(cfg),
          constraintAnalysis |-> << >>,
          towerRadius |-> cfg.bot_radius,
          printableRadius |-> RoundDiv(maxPrintRadius * 9, 10),
          printBedRadius |-> maxPrintRadius] :
            maxPrintRadius \in
                {MathMin(MathMin(calculateRealBuildPlateRadius(syncedCalculator(cfg, bcfg, c)),
                                 calculateKinematicLimit(cfg)),
                         bcfg.physical_bed_radius)}} : TRUE

\* A variant of calculateBuildVolume that leaves the calculator's constraint
\* type as it is instead of setting the configured one.
calculateBuildVolumeNoSync(cfg, bcfg, c) ==
    CHOOSE buildVolume \in
        {[maxPrintRadius |-> maxPrintRadius,
          recommendedPrintRadius |-> RoundDiv(maxPrintRadius * 9, 10),
          buildVolumeHeight |-> calculateBuildHeight(cfg),
          constraintAnalysis |-> << >>,
          towerRadius |-> cfg.bot_radius,
          printableRadius |-> RoundDiv(maxPrintRadius * 9, 10),
          printBedRadius |-> maxPrintRadius] :
            maxPrintRadius \in
                {MathMin(calculateRealBuildPlateRadius(constraintCalculatorUpdateConfig(c, cfg)),
                         calculateKinematicLimit(cfg))}} : TRUE

calculateBuildVolume(cfg, bcfg, c) ==
    CHOOSE buildVolume \in
        {LET maxPrintRadius == MathMin(theoreticalPrintableRadius, kinematicRadius)
             recommendedPrintRadius == RoundDiv(maxPrintRadius * 9, 10)
             limiting(value) == isWithinTolerance(value, maxPrintRadius, Mm(1))
         IN  [maxPrintRadius |-> maxPrintRadius,
              recommendedPrintRadius |-> recommendedPrintRadius,
              buildVolumeHeight |-> calculateBuildHeight(cfg),
              constraintAnalysis |->
                 << [type |-> "Theoretical", value |-> theoreticalPrintableRadius,
                     isLimiting |-> limiting(theoreticalPrintableRadius)],
                    [type |-> "Kinematic", value |-> kinematicRadius,
                     isLimiting |-> limiting(kinematicRadius)],
                    [type |-> "Physical Bed", value |-> bcfg.physical_bed_radius,
                     isLimiting |-> limiting(bcfg.physical_bed_radius)] >>,
              towerRadius |-> cfg.bot_radius,
              printableRadius |-> recommendedPrintRadius,
              printBedRadius |-> maxPrintRadius] :
            theoreticalPrintableRadius \in
                {calculateRealBuildPlateRadius(syncedCalculator(cfg, bcfg, c))},
            kinematicRadius \in {calculateKinematicLimit(cfg)}} : TRUE

\* A variant of carriageZ that clamps the radicand at 0, giving the nub's height
\* where the arm cannot reach instead of NaN.
carriageZClamped(cfg, effectorPosition, i) ==
    LET armLengthSquared == cfg.arm_length * cfg.arm_length
        towerPos == calculateTowerPosition(i, cfg.bot_radius)
        effectorNubCenter == calculateArmPosition(i * 2, cfg.effector_radius, 0, TRUE)
        nubWorldPos == [x |-> effectorPosition.x + effectorNubCenter.x,
                        y |-> effectorPosition.y + effectorNubCenter.y,
                        z |-> Plus(effectorPosition.z, effectorNubCenter.z)]
        deltaX == towerPos.x - nubWorldPos.x
        deltaY == towerPos.y - nubWorldPos.y
        horizontalDistanceSquared == deltaX * deltaX + deltaY * deltaY
        verticalComponent ==
            MathSqrt(MathMax(0, armLengthSquared - horizontalDistanceSquared))
    IN  Plus(nubWorldPos.z, verticalComponent)

\* A variant of carriageZ that measures the horizontal distance from the
\* effector position instead of from the tower's nub.
carriageZFromCenter(cfg, effectorPosition, i) ==
    LET armLengthSquared == cfg.arm_length * cfg.arm_length
        towerPos == calculateTowerPosition(i, cfg.bot_radius)
        effectorNubCenter == calculateArmPosition(i * 2, cfg.effector_radius, 0, TRUE)
        deltaX == towerPos.x - effectorPosition.x
        deltaY == towerPos.y - effectorPosition.y
        horizontalDistanceSquared == deltaX * deltaX + deltaY * deltaY
        verticalComponent == MathSqrt(armLengthSquared - horizontalDistanceSquared)
    IN  Plus(Plus(effectorPosition.z, effectorNubCenter.z), verticalComponent)

\* One iteration of the loop over the towers.
carriageZ(cfg, effectorPosition, i) ==
    LET armLengthSquared == cfg.arm_length * cfg.arm_length
        towerPos == calculateTowerPosition(i, cfg.bot_radius)
        effectorNubCenter == calculateArmPosition(i * 2, cfg.effector_radius, 0, TRUE)
        nubWorldPos == [x |-> effectorPosition.x + effectorNubCenter.x,
                        y |-> effectorPosition.y + effectorNubCenter.y,
                        z |-> Plus(effectorPosition.z, effectorNubCenter.z)]
        deltaX == towerPos.x - nubWorldPos.x
        deltaY == towerPos.y - nubWorldPos.y
        horizontalDistanceSquared == deltaX * deltaX + deltaY * deltaY
        verticalComponent == MathSqrt(armLengthSquared - horizontalDistanceSquared)
    IN  Plus(nubWorldPos.z, verticalComponent)

calculateCarriagePositions(cfg, effectorPosition) ==
    [i \in Towers |-> carriageZ(cfg, effectorPosition, i)]

\* A variant of validatePosition that does not check the upper end of the
\* carriage travel.
validatePositionNoUpperLimit(cfg, position) ==
    LET minCarriageZ == -(cfg.bot_height \div 2) + cfg.carriage_height \div 2
    IN  CHOOSE result \in
            {[position |-> [x |-> position.x, y |-> position.y, z |-> position.z],
              carriage_positions |-> carriagePositions,
              is_reachable |-> \A i \in Towers :
                                  /\ GE(carriagePositions[i], minCarriageZ)
                                  /\ ~isNaN(carriagePositions[i])] :
                carriagePositions \in {[i \in Towers |-> carriageZ(cfg, position, i)]}} : TRUE

\* arm_angles (a display value computed with Math.atan2) is left out.
validatePosition(cfg, position) ==
    LET halfHeight == cfg.bot_height \div 2
        maxCarriageZ == halfHeight - cfg.carriage_height \div 2
        minCarriageZ == -halfHeight + cfg.carriage_height \div 2
    IN  CHOOSE result \in
            {[position |-> [x |-> position.x, y |-> position.y, z |-> position.z],
              carriage_positions |-> carriagePositions,
              is_reachable |-> \A i \in Towers :
                                  /\ GE(carriagePositions[i], minCarriageZ)
                                  /\ LE(carriagePositions[i], maxCarriageZ)
                                  /\ ~isNaN(carriagePositions[i])] :
                carriagePositions \in {calculateCarriagePositions(cfg, position)}} : TRUE

\* A variant of applyCarriageConstraints that raises the effector by half of
\* what the lowest carriage lacks.
applyCarriageConstraintsHalfRaise(cfg, position) ==
    LET halfHeight == cfg.bot_height \div 2
        buildPlateLevel == -halfHeight + Mm(PLATFORM_HEIGHT)
        carriageMinAboveBuildPlate == buildPlateLevel + Mm(10)
        frameMinZ == -halfHeight + Mm(25)
        minAllowedCarriageZ == MathMax(carriageMinAboveBuildPlate, frameMinZ)
    IN  CHOOSE constrained \in
            {LET lowestCarriageZ == MathMin(MathMin(carriageZPositions[0], carriageZPositions[1]),
                                            carriageZPositions[2])
                 requiredCarriageZIncrease == Minus(minAllowedCarriageZ, lowestCarriageZ)
             IN  IF GE(lowestCarriageZ, minAllowedCarriageZ)
                 THEN position
                 ELSE [x |-> position.x,
                       y |-> position.y,
                       z |-> Plus(position.z, IF isNaN(requiredCarriageZIncrease) THEN NaN
                                              ELSE requiredCarriageZIncrease \div 2)] :
                carriageZPositions \in {calculateCarriagePositions(cfg, position)}} : TRUE

applyCarriageConstraints(cfg, position) ==
    LET halfHeight == cfg.bot_height \div 2
        buildPlateLevel == -halfHeight + Mm(PLATFORM_HEIGHT)
        carriageMinAboveBuildPlate == buildPlateLevel + Mm(10)
        frameMinZ == -halfHeight + Mm(25)
        minAllowedCarriageZ == MathMax(carriageMinAboveBuildPlate, frameMinZ)
    IN  CHOOSE constrained \in
            {LET lowestCarriageZ == MathMin(MathMin(carriageZPositions[0], carriageZPositions[1]),
                                            carriageZPositions[2])
                 requiredCarriageZIncrease == Minus(minAllowedCarriageZ, lowestCarriageZ)
             IN  IF GE(lowestCarriageZ, minAllowedCarriageZ)
                 THEN position
                 ELSE [x |-> position.x,
                       y |-> position.y,
                       z |-> Plus(position.z, requiredCarriageZIncrease)] :
                carriageZPositions \in {calculateCarriagePositions(cfg, position)}} : TRUE

\* Math.sin(Math.atan2(x, y)) and Math.cos(Math.atan2(x, y)), in 1/TrigDen:
\* x and y over the length of (x, y), which is not 0 where this is used.
SinAtan2(x, y) == RoundDiv(x * TrigDen, distance2D(x, y, 0, 0))

CosAtan2(x, y) == RoundDiv(y * TrigDen, distance2D(x, y, 0, 0))

\* A variant of constrainPosition that takes the cosine for x and the sine
\* for y.
constrainPositionSwapped(cfg, bcfg, c, position) ==
    LET halfHeight == cfg.bot_height \div 2
        maxZ == halfHeight - cfg.arm_length - cfg.carriage_height \div 2
        minZ == -halfHeight + Mm(EFFECTOR_HEIGHT) \div 2
        constrainedZ == clamp(position.z, minZ, maxZ)
        \* the position after the horizontal and the vertical constraint
        constrainedTo(constraintRadius) ==
            LET horizontalDistance == distance2D(position.x, position.y, 0, 0)
                outside == GT(horizontalDistance, constraintRadius)
                constrainedX == IF outside
                                THEN MulTrig(CosAtan2(position.x, position.y), constraintRadius)
                                ELSE position.x
                constrainedY == IF outside
                                THEN MulTrig(SinAtan2(position.x, position.y), constraintRadius)
                                ELSE position.y
            IN  [x |-> constrainedX, y |-> constrainedY, z |-> constrainedZ]
    IN  CHOOSE result \in
            {applyCarriageConstraints(cfg, constrainedPosition) :
                constrainedPosition \in
                    {CHOOSE p \in {constrainedTo(buildVolume.maxPrintRadius) :
                                     buildVolume \in {calculateBuildVolume(cfg, bcfg, c)}} : TRUE}} : TRUE

constrainPosition(cfg, bcfg, c, position) ==
    LET halfHeight == cfg.bot_height \div 2
        maxZ == halfHeight - cfg.arm_length - cfg.carriage_height \div 2
        minZ == -halfHeight + Mm(EFFECTOR_HEIGHT) \div 2
        constrainedZ == clamp(position.z, minZ, maxZ)
        \* the position after the horizontal and the vertical constraint
        constrainedTo(constraintRadius) ==
            LET horizontalDistance == distance2D(position.x, position.y, 0, 0)
                outside == GT(horizontalDistance, constraintRadius)
                constrainedX == IF outside
                                THEN MulTrig(SinAtan2(position.x, position.y), constraintRadius)
                                ELSE position.x
                constrainedY == IF outside
                                THEN MulTrig(CosAtan2(position.x, position.y), constraintRadius)
                                ELSE position.y
            IN  [x |-> constrainedX, y |-> constrainedY, z |-> constrainedZ]
    IN  CHOOSE result \in
            {applyCarriageConstraints(cfg, constrainedPosition) :
                constrainedPosition \in
                    {CHOOSE p \in {constrainedTo(buildVolume.maxPrintRadius) :
                                     buildVolume \in {calculateBuildVolume(cfg, bcfg, c)}} : TRUE}} : TRUE

----------------------------------------------------------------------------
\* The configurations and inputs explored.

\* PRESET_CONFIGS['kossel-mini'] and ['kossel-standard'] (constants.ts)
KosselMini ==
    [bot_radius |-> Mm(120), bot_height |-> Mm(400), rod_spacing |-> Mm(25),
     rod_radius |-> Mm(4), carriage_inset |-> Mm(20), carriage_height |-> Mm(25),
     carriage_offset |-> 0, arm_length |-> Mm(100), arm_radius |-> Mm(5) \div 2,
     effector_radius |-> Mm(30), eff_spacing |-> Mm(25),
     diagonal_rod_length |-> Mm(180), tower_offset |-> Mm(20)]

KosselStandard ==
    [bot_radius |-> Mm(195), bot_height |-> Mm(520), rod_spacing |-> Mm(30),
     rod_radius |-> Mm(4), carriage_inset |-> Mm(25), carriage_height |-> Mm(30),
     carriage_offset |-> 0, arm_length |-> Mm(100), arm_radius |-> Mm(5) \div 2,
     effector_radius |-> Mm(40), eff_spacing |-> Mm(30),
     diagonal_rod_length |-> Mm(240), tower_offset |-> Mm(25)]

Presets == {KosselMini, KosselStandard}

\* Arm lengths set through updateConfig, in mm, besides the presets' 100:
\* one that just reaches the towers of the smaller frame from its axis (78),
\* 150, the optimal length of the larger preset (315), and one longer than
\* the carriage travel of the smaller frame above the test height (330).
ArmLengths == {78, 150, 315, 330}

\* Physical bed radii, in mm (PARAMETER_LIMITS.physical_bed_radius: 50..200)
BedRadii == {50, 120}

\* Effector positions handed to the kinematics, in mm: the points
\* i * (XStep, YStep), i = 0 .. GridMax, at the heights -ZStep, 0 and ZStep.
GridMax == 2

XStep == 50

YStep == 25

ZStep == 200

Positions ==
    {[x |-> Mm(i * XStep), y |-> Mm(i * YStep), z |-> Mm(k * ZStep)] :
        i \in 0 .. GridMax, k \in -1 .. 1}

ConfigUpdates ==
    {[f \in {"arm_length"} |-> Mm(l)] : l \in ArmLengths} \cup Presets

BuildConfigUpdates ==
    {[f \in {"physical_bed_radius"} |-> Mm(r)] : r \in BedRadii}
    \cup {[f \in {"constraint_type"} |-> t] : t \in ConstraintTypes}

----------------------------------------------------------------------------
\* The state: a DeltaCalculations instance (config, buildConfig and the
\* constraintCalculator it owns), ret, the value the call just made returned
\* to its caller, and app, the fields of the DeltabotApp that owns the
\* instance (NoApp where the instance stands alone).  All calls are
\* synchronous: the caller makes one call at a time and takes the value
\* returned (Return) before the next.

VARIABLES config, buildConfig, constraintCalculator, ret, app

vars == <<config, buildConfig, constraintCalculator, ret, app>>

NoCall == [op |-> "none"]

\* The value of app when the calculations are constructed on their own.
NoApp == [constructed |-> FALSE]

\* new DeltaCalculations(config, buildConfig)
Init ==
    /\ config \in Presets
    /\ buildConfig \in [physical_bed_radius : {Mm(r) : r \in BedRadii},
                        constraint_type : ConstraintTypes]
    /\ constraintCalculator = newConstraintCalculator(config, buildConfig.physical_bed_radius)
    /\ ret = NoCall
    /\ app = NoApp

UpdateConfig ==
    \E newConfig \in ConfigUpdates :
        /\ ret = NoCall
        /\ config' = updateConfig(config, constraintCalculator, newConfig).config
        /\ constraintCalculator' =
              updateConfig(config, constraintCalculator, newConfig).constraintCalculator
        /\ UNCHANGED <<buildConfig, ret, app>>

UpdateBuildConfig ==
    \E newBuildConfig \in BuildConfigUpdates :
        /\ ret = NoCall
        /\ buildConfig' = updateBuildConfig(buildConfig, constraintCalculator, newBuildConfig).buildConfig
        /\ constraintCalculator' =
              updateBuildConfig(buildConfig, constraintCalculator, newBuildConfig).constraintCalculator
        /\ UNCHANGED <<config, ret, app>>

CalculateRealBuildPlateRadius ==
    /\ ret = NoCall
    /\ ret' = [op |-> "calculateRealBuildPlateRadius",
               value |-> calculateRealBuildPlateRadius(constraintCalculator)]
    /\ UNCHANGED <<config, buildConfig, constraintCalculator, app>>

GetCarriageConstraintAnalysis ==
    /\ ret = NoCall
    /\ ret' = [op |-> "getCarriageConstraintAnalysis",
               value |-> getCarriageConstraintAnalysisMaxRadius(constraintCalculator)]
    /\ UNCHANGED <<config, buildConfig, constraintCalculator, app>>

CalculateBuildVolume ==
    /\ ret = NoCall
    /\ constraintCalculator' = syncedCalculator(config, buildConfig, constraintCalculator)
    /\ ret' = [op |-> "calculateBuildVolume",
               value |-> calculateBuildVolume(config, buildConfig, constraintCalculator)]
    /\ UNCHANGED <<config, buildConfig, app>>

CalculateCarriagePositions ==
    \E p \in Positions :
        /\ ret = NoCall
        /\ ret' = [op |-> "calculateCarriagePositions", arg |-> p,
                   value |-> calculateCarriagePositions(config, p)]
        /\ UNCHANGED <<config, buildConfig, constraintCalculator, app>>

ValidatePosition ==
    \E p \in Positions :
        /\ ret = NoCall
        /\ ret' = [op |-> "validatePosition", arg |-> p,
                   value |-> validatePosition(config, p)]
        /\ UNCHANGED <<config, buildConfig, constraintCalculator, app>>

ConstrainPosition ==
    \E p \in Positions :
        /\ ret = NoCall
        /\ constraintCalculator' = syncedCalculator(config, buildConfig, constraintCalculator)
        /\ ret' = [op |-> "constrainPosition", arg |-> p,
                   value |-> constrainPosition(config, buildConfig, constraintCalculator, p)]
        /\ UNCHANGED <<config, buildConfig, app>>

\* The caller has taken the value returned.
Return ==
    /\ ret # NoCall
    /\ ret' = NoCall
    /\ UNCHANGED <<config, buildConfig, constraintCalculator, app>>

Next ==
    \/ UpdateConfig
    \/ UpdateBuildConfig
    \/ CalculateRealBuildPlateRadius
    \/ GetCarriageConstraintAnalysis
    \/ CalculateBuildVolume
    \/ CalculateCarriagePositions
    \/ ValidatePosition
    \/ ConstrainPosition
    \/ Return

Spec == Init /\ [][Next]_vars

----------------------------------------------------------------------------
\* The calculations on any configuration.  SpecAny constructs the instance
\* with a configuration drawn from AnyConfigs, which has degenerate ones
\* (a frame radius smaller than the margins, an arm too short to reach a
\* tower, a frame wider than it is high), and applies the calculations that
\* read nothing but the configuration and the constraint type, and
\* constrainPosition.

\* A frame wider than it is high, every parameter within PARAMETER_LIMITS,
\* whose arms just reach the towers from the axis.
WideFrame ==
    [KosselStandard EXCEPT !.bot_radius = Mm(229), !.bot_height = Mm(200),
                           !.arm_length = Mm(181), !.effector_radius = Mm(20),
                           !.carriage_height = Mm(15)]

AnyConfigs ==
    {[KosselStandard EXCEPT !.bot_radius = Mm(br), !.bot_height = Mm(bh),
                            !.arm_length = Mm(al), !.rod_radius = Mm(rr)] :
        br \in {0, 10, 50, 195, 500}, bh \in {200, 520}, al \in {20, 100, 315}, rr \in {0, 4}}
    \cup {WideFrame}

\* The radii handed to calculateTowerPosition.
TowerRadii == {0, Mm(1), Mm(40), Mm(195)}

InitAny ==
    /\ config \in AnyConfigs
    /\ buildConfig \in [physical_bed_radius : {Mm(120)}, constraint_type : ConstraintTypes]
    /\ constraintCalculator = newConstraintCalculator(config, buildConfig.physical_bed_radius)
    /\ ret = NoCall
    /\ app = NoApp

CalculateOptimalArmLength ==
    /\ ret = NoCall
    /\ ret' = [op |-> "calculateOptimalArmLength", value |-> calculateOptimalArmLength(config)]
    /\ UNCHANGED <<config, buildConfig, constraintCalculator, app>>

CalculateTowerPosition ==
    \E towerIndex \in Towers, radius \in TowerRadii :
        /\ ret = NoCall
        /\ ret' = [op |-> "calculateTowerPosition", towerIndex |-> towerIndex, radius |-> radius,
                   value |-> calculateTowerPosition(towerIndex, radius)]
        /\ UNCHANGED <<config, buildConfig, constraintCalculator, app>>

CalculateTowerAngles ==
    /\ ret = NoCall
    /\ ret' = [op |-> "calculateTowerAngles", value |-> calculateTowerAngles]
    /\ UNCHANGED <<config, buildConfig, constraintCalculator, app>>

SetConstraintType ==
    \E type \in ConstraintTypes :
        /\ ret = NoCall
        /\ buildConfig' =
              updateBuildConfig(buildConfig, constraintCalculator,
                                [f \in {"constraint_type"} |-> type]).buildConfig
        /\ constraintCalculator' =
              updateBuildConfig(buildConfig, constraintCalculator,
                                [f \in {"constraint_type"} |-> type]).constraintCalculator
        /\ UNCHANGED <<config, ret, app>>

NextAny ==
    \/ SetConstraintType
    \/ CalculateRealBuildPlateRadius
    \/ CalculateBuildVolume
    \/ CalculateOptimalArmLength
    \/ CalculateTowerPosition
    \/ CalculateTowerAngles
    \/ ConstrainPosition
    \/ Return

SpecAny == InitAny /\ [][NextAny]_vars

----------------------------------------------------------------------------
\* GeometryUtils by itself.  SpecGeometry applies calculateArmPosition and
\* calculateTowerPosition to arguments drawn from small sets; the instance
\* is constructed and left alone.

\* The arms, two to a tower.
Arms == 0 .. 5

\* The radii and spacings handed to calculateArmPosition: those of the
\* presets' effector and carriages, no radius, no spacing, a negative spacing.
ArmRadii == {0, Mm(40), Mm(170)}

ArmSpacings == {0, Mm(30), Mm(46), -Mm(30)}

InitGeometry ==
    /\ config \in Presets
    /\ buildConfig = [physical_bed_radius |-> Mm(120), constraint_type |-> "effector-edge"]
    /\ constraintCalculator = newConstraintCalculator(config, buildConfig.physical_bed_radius)
    /\ ret = NoCall
    /\ app = NoApp

CalculateArmPosition ==
    \E armIndex \in Arms, radius \in ArmRadii, spacing \in ArmSpacings, centerOnly \in BOOLEAN :
        /\ ret = NoCall
        /\ ret' = [op |-> "calculateArmPosition", armIndex |-> armIndex, radius |-> radius,
                   spacing |-> spacing, centerOnly |-> centerOnly,
                   value |-> calculateArmPosition(armIndex, radius, spacing, centerOnly)]
        /\ UNCHANGED <<config, buildConfig, constraintCalculator, app>>

NextGeometry ==
    \/ CalculateArmPosition
    \/ CalculateTowerPosition
    \/ Return

SpecGeometry == InitGeometry /\ [][NextGeometry]_vars

----------------------------------------------------------------------------
\* The radius search, one candidate at a time.  SpecSearch runs the loop of
\* calculateCarriageConstrainedRadius as steps: ret holds the loop's
\* variables testRadius and maxValidRadius and whether the loop has been
\* left, and, for the properties, the number of candidates tested, the
\* largest of them and the first one that was not valid.

\* No radius: no candidate has been tested, or none has failed.
NoRadius == -1

\* Frames from one smaller than the range of the search to the standard
\* one, with arms that reach no tower, some radii, or the whole range, and
\* the presets with the arms of ArmLengths.
SearchConfigs ==
    {[KosselStandard EXCEPT !.bot_radius = Mm(br), !.bot_height = Mm(bh),
                            !.arm_length = Mm(al)] :
        br \in {-60, -50, -48, 0, 50, 195}, bh \in {200, 520}, al \in {20, 100, 315}}
    \cup {[p EXCEPT !.arm_length = Mm(al)] : p \in Presets, al \in ArmLengths}

InitSearch ==
    /\ config \in SearchConfigs
    /\ buildConfig = [physical_bed_radius |-> Mm(120), constraint_type |-> "effector-edge"]
    /\ constraintCalculator = newConstraintCalculator(config, buildConfig.physical_bed_radius)
    /\ ret = NoCall
    /\ app = NoApp

\* let maxValidRadius = 0; ... testRadius = 0
searchStart ==
    [op |-> "calculateCarriageConstrainedRadius", testRadius |-> 0, maxValidRadius |-> 0,
     left |-> FALSE, tested |-> 0, largestTested |-> NoRadius, firstInfeasible |-> NoRadius]

\* A variant of searchStep that goes on after a candidate that is not valid.
searchStepNoBreak(c, loop) ==
    IF loop.testRadius <= maxTestRadius(c)
    THEN IF allCarriagesValid(c, loop.testRadius)
         THEN [loop EXCEPT !.maxValidRadius = loop.testRadius,
                           !.testRadius = loop.testRadius + testStep,
                           !.tested = loop.tested + 1,
                           !.largestTested = loop.testRadius]
         ELSE [loop EXCEPT !.testRadius = loop.testRadius + testStep,
                           !.tested = loop.tested + 1,
                           !.largestTested = loop.testRadius,
                           !.firstInfeasible = IF loop.firstInfeasible = NoRadius
                                               THEN loop.testRadius
                                               ELSE loop.firstInfeasible]
    ELSE [loop EXCEPT !.left = TRUE]

\* The loop's condition and one pass through its body.
searchStep(c, loop) ==
    IF loop.testRadius <= maxTestRadius(c)
    THEN IF allCarriagesValid(c, loop.testRadius)
         THEN [loop EXCEPT !.maxValidRadius = loop.testRadius,
                           !.testRadius = loop.testRadius + testStep,
                           !.tested = loop.tested + 1,
                           !.largestTested = loop.testRadius]
         ELSE [loop EXCEPT !.left = TRUE,
                           !.tested = loop.tested + 1,
                           !.largestTested = loop.testRadius,
                           !.firstInfeasible = loop.testRadius]
    ELSE [loop EXCEPT !.left = TRUE]

Searching == ret.op = "calculateCarriageConstrainedRadius"

StartSearch ==
    /\ ret = NoCall
    /\ ret' = searchStart
    /\ UNCHANGED <<config, buildConfig, constraintCalculator, app>>

TestRadius ==
    /\ Searching
    /\ ~ret.left
    /\ ret' = searchStep(constraintCalculator, ret)
    /\ UNCHANGED <<config, buildConfig, constraintCalculator, app>>

ReturnMaxValidRadius ==
    /\ Searching
    /\ ret.left
    /\ ret' = NoCall
    /\ UNCHANGED <<config, buildConfig, constraintCalculator, app>>

NextSearch ==
    \/ StartSearch
    \/ TestRadius
    \/ ReturnMaxValidRadius

\* The loop is synchronous code: once called it runs on.
SpecSearch == InitSearch /\ [][NextSearch]_vars /\ WF_vars(NextSearch)

----------------------------------------------------------------------------
\* The application.  DeltabotApp holds the parameters as its own fields and
\* owns a DeltaCalculations instance, which config, buildConfig and
\* constraintCalculator are; app is the record of the fields.  The operators
\* below take and give the whole state, [app, config, buildConfig,
\* constraintCalculator].  app.controls holds the values of the page's
\* controls that UIManager reads back into the app.  The scene's objects are
\* not part of the state.

\* PARAMETER_LIMITS, in the unit of the model.
PARAMETER_LIMITS ==
    [bot_radius          |-> [min |-> Mm(50),  max |-> Mm(500)],
     bot_height          |-> [min |-> Mm(200), max |-> Mm(1000)],
     rod_spacing         |-> [min |-> Mm(20),  max |-> Mm(100)],
     rod_radius          |-> [min |-> Mm(2),   max |-> Mm(10)],
     carriage_inset      |-> [min |-> Mm(10),  max |-> Mm(50)],
     carriage_height     |-> [min |-> Mm(15),  max |-> Mm(60)],
     carriage_offset     |-> [min |-> Mm(0),   max |-> Mm(20)],
     arm_radius          |-> [min |-> Mm(1),   max |-> Mm(10)],
     effector_radius     |-> [min |-> Mm(20),  max |-> Mm(80)],
     eff_spacing         |-> [min |-> Mm(20),  max |-> Mm(60)],
     diagonal_rod_length |-> [min |-> Mm(150), max |-> Mm(400)],
     tower_offset        |-> [min |-> Mm(0),   max |-> Mm(50)],
     physical_bed_radius |-> [min |-> Mm(50),  max |-> Mm(200)]]

\* The fields of a DeltaRobotConfig.
ConfigFields == DOMAIN KosselStandard

\* The fields of a DeltabotApp as its declarations initialise them; the
\* controls as setupParameterControls sets them from the fields, the one of
\* the physical bed at the default of its entry in PARAMETER_LIMITS.
DeltabotAppDefaults ==
    [rod_radius |-> Mm(4), bot_radius |-> Mm(240), bot_height |-> Mm(700),
     rod_spacing |-> Mm(30), eff_spacing |-> Mm(30), arm_length |-> Mm(240),
     arm_radius |-> Mm(5) \div 2, effector_radius |-> Mm(40),
     carriage_inset |-> Mm(25), carriage_height |-> Mm(30), carriage_offset |-> 0,
     tower_offset |-> Mm(25), diagonal_rod_length |-> Mm(240),
     physical_bed_radius |-> Mm(120), constraint_type |-> "effector-edge",
     max_print_radius |-> 0, recommended_print_radius |-> 0, build_volume_height |-> 0,
     controls |-> [effector_radius |-> Mm(40), eff_spacing |-> Mm(30),
                   physical_bed_radius |-> Mm(120)]]

getCurrentDeltaConfig(a) == [f \in ConfigFields |-> a[f]]

getCurrentBuildConfig(a) ==
    [physical_bed_radius |-> a.physical_bed_radius, constraint_type |-> a.constraint_type]

\* DeltabotApp.calculateBuildVolume
appCalculateBuildVolume(s0) ==
    CHOOSE after \in
        {CHOOSE r \in
            {[app |-> [s.app EXCEPT !.max_print_radius = buildVolume.maxPrintRadius,
                                    !.recommended_print_radius = buildVolume.recommendedPrintRadius,
                                    !.build_volume_height = buildVolume.buildVolumeHeight],
              config |-> u.config,
              buildConfig |-> u.buildConfig,
              constraintCalculator |->
                  syncedCalculator(u.config, u.buildConfig, u.constraintCalculator)] :
                buildVolume \in {calculateBuildVolume(u.config, u.buildConfig,
                                                      u.constraintCalculator)}} : TRUE :
            s \in {s0},
            u \in {LET c1 == updateConfig(s0.config, s0.constraintCalculator,
                                          getCurrentDeltaConfig(s0.app))
                       c2 == updateBuildConfig(s0.buildConfig, c1.constraintCalculator,
                                               getCurrentBuildConfig(s0.app))
                   IN  [config |-> c1.config, buildConfig |-> c2.buildConfig,
                        constraintCalculator |-> c2.constraintCalculator]}} : TRUE

\* DeltabotApp.initBotGeometry
initBotGeometry(s0) ==
    CHOOSE after \in
        {appCalculateBuildVolume(
            [app |-> [s.app EXCEPT !.arm_length = calculateOptimalArmLength(u.config)],
             config |-> u.config,
             buildConfig |-> s.buildConfig,
             constraintCalculator |-> u.constraintCalculator]) :
            s \in {s0},
            u \in {updateConfig(s0.config, s0.constraintCalculator,
                                getCurrentDeltaConfig(s0.app))}} : TRUE

\* DeltabotApp.initBuildPlate
initBuildPlate(s0) ==
    CHOOSE after \in
        {[s EXCEPT !.constraintCalculator =
              setConstraintType(
                  constraintCalculatorUpdateConfig(s.constraintCalculator,
                                                   getCurrentDeltaConfig(s.app)),
                  s.app.constraint_type)] : s \in {s0}} : TRUE

\* DeltabotApp.initDeltabot
initDeltabot(s0) == initBuildPlate(s0)

\* DeltabotApp.rebuildScene
rebuildScene(s0) == initDeltabot(initBotGeometry(s0))

\* A variant of calculateDependentParameters whose arm length is 10 mm more
\* than the optimal one.
calculateDependentParametersOvershoot(cfg) ==
    LET optimalArmLength == calculateOptimalArmLength(cfg)
        updated ==
            (IF Abs(4 * cfg.diagonal_rod_length - 5 * cfg.bot_radius) > 4 * Mm(10)
             THEN {"diagonal_rod_length"} ELSE {})
            \cup (IF cfg.tower_offset # cfg.carriage_inset THEN {"tower_offset"} ELSE {})
            \cup (IF 4 * cfg.effector_radius > cfg.bot_radius
                  THEN {"effector_radius"} ELSE {})
            \cup (IF Abs(cfg.arm_length - optimalArmLength) > Mm(5)
                  THEN {"arm_length"} ELSE {})
    IN  [f \in updated |->
            CASE f = "diagonal_rod_length" -> Mm(RoundDiv(5 * cfg.bot_radius, 4 * Scale))
              [] f = "tower_offset" -> cfg.carriage_inset
              [] f = "effector_radius" -> Mm(cfg.bot_radius \div (4 * Scale))
              [] f = "arm_length" -> optimalArmLength + Mm(10)]

\* DeltaCalculations.calculateDependentParameters: the updates, a function
\* from some of the field names to their new values.
calculateDependentParameters(cfg) ==
    LET optimalArmLength == calculateOptimalArmLength(cfg)
        updated ==
            (IF Abs(4 * cfg.diagonal_rod_length - 5 * cfg.bot_radius) > 4 * Mm(10)
             THEN {"diagonal_rod_length"} ELSE {})
            \cup (IF cfg.tower_offset # cfg.carriage_inset THEN {"tower_offset"} ELSE {})
            \cup (IF 4 * cfg.effector_radius > cfg.bot_radius
                  THEN {"effector_radius"} ELSE {})
            \cup (IF Abs(cfg.arm_length - optimalArmLength) > Mm(5)
                  THEN {"arm_length"} ELSE {})
    IN  [f \in updated |->
            CASE f = "diagonal_rod_length" -> Mm(RoundDiv(5 * cfg.bot_radius, 4 * Scale))
              [] f = "tower_offset" -> cfg.carriage_inset
              [] f = "effector_radius" -> Mm(cfg.bot_radius \div (4 * Scale))
              [] f = "arm_length" -> optimalArmLength]

\* DeltabotApp.updateDependentParameters
updateDependentParameters(s0) ==
    CHOOSE after \in
        {CHOOSE r \in
            {initBuildPlate(appCalculateBuildVolume(
                [app |-> mergeConfig(s.app, calculateDependentParameters(u.config)),
                 config |-> u.config,
                 buildConfig |-> s.buildConfig,
                 constraintCalculator |-> u.constraintCalculator])) :
                u \in {updateConfig(s.config, s.constraintCalculator,
                                    getCurrentDeltaConfig(s.app))}} : TRUE :
            s \in {appCalculateBuildVolume(s0)}} : TRUE

\* DeltabotApp.setConstraintType
appSetConstraintType(s0, type) ==
    updateDependentParameters(
        appCalculateBuildVolume([s0 EXCEPT !.app.constraint_type = type]))

\* UIManager.triggerConfigurationUpdate with the radio of type checked, and
\* DeltabotApp.updateFromConfiguration, which it calls: the app takes the
\* values of the controls.
triggerConfigurationUpdate(s0, type) ==
    CHOOSE after \in
        {CHOOSE r \in
            {initDeltabot(initBotGeometry(
                [app |-> a, config |-> u.config, buildConfig |-> s0.buildConfig,
                 constraintCalculator |-> u.constraintCalculator])) :
                u \in {updateConfig(s0.config, s0.constraintCalculator,
                                    getCurrentDeltaConfig(a))}} : TRUE :
            a \in {[s0.app EXCEPT !.effector_radius = s0.app.controls.effector_radius,
                                  !.eff_spacing = s0.app.controls.eff_spacing,
                                  !.physical_bed_radius = s0.app.controls.physical_bed_radius,
                                  !.constraint_type = type]}} : TRUE

\* The controls of the parameters a preset has take the preset's values.
presetControls(controls, preset) ==
    [f \in DOMAIN controls |-> IF f \in DOMAIN preset THEN preset[f] ELSE controls[f]]

\* loadPreset of main.ts
loadPreset(s0, preset) ==
    rebuildScene([s0 EXCEPT !.app = [mergeConfig(s0.app, preset) EXCEPT
                                        !.controls = presetControls(s0.app.controls, preset)]])

\* DeltabotApp.init: the managers (initializeNewManagers), then the geometry.
appInit ==
    initDeltabot(initBotGeometry(
        [app |-> DeltabotAppDefaults,
         config |-> getCurrentDeltaConfig(DeltabotAppDefaults),
         buildConfig |-> getCurrentBuildConfig(DeltabotAppDefaults),
         constraintCalculator |->
             newConstraintCalculator(getCurrentDeltaConfig(DeltabotAppDefaults),
                                     DeltabotAppDefaults.physical_bed_radius)]))

\* The state the handlers read.
appState ==
    [app |-> app, config |-> config, buildConfig |-> buildConfig,
     constraintCalculator |-> constraintCalculator]

\* The handler leaves the state s.
Becomes(s) ==
    /\ app' = s.app
    /\ config' = s.config
    /\ buildConfig' = s.buildConfig
    /\ constraintCalculator' = s.constraintCalculator
    /\ UNCHANGED ret

\* The values typed into the inputs or set on the sliders of the controls of
\* main.ts, before updateValue limits them: a frame radius above its range
\* and an effector radius below its range.
SliderInputs == {<<"bot_radius", Mm(600)>>, <<"effector_radius", Mm(10)>>}

\* The values typed into the input of the physical bed radius.
BedInputs == {Mm(300)}

\* Math.random() of the randomize button, in tenths.  Each field has a draw
\* of its own; here all fields of one click have the same.
RandomTenths == {0, 9}

\* Math.floor(Math.random() * range + base), in mm
randomInt(tenths, range, base) == Mm((tenths * range) \div 10 + base)

randomPreset(draw) ==
    [bot_radius |-> randomInt(draw, 300, 100),
     bot_height |-> randomInt(draw, 400, 300),
     rod_spacing |-> randomInt(draw, 40, 20),
     rod_radius |-> randomInt(draw, 6, 3),
     carriage_inset |-> randomInt(draw, 30, 15),
     carriage_height |-> randomInt(draw, 30, 20),
     carriage_offset |-> randomInt(draw, 10, 0),
     arm_length |-> randomInt(draw, 50, 80),
     arm_radius |-> randomInt(draw, 4, 2),
     effector_radius |-> randomInt(draw, 40, 25),
     eff_spacing |-> randomInt(draw, 30, 20),
     diagonal_rod_length |-> randomInt(draw, 150, 200),
     tower_offset |-> randomInt(draw, 30, 15)]

\* The page is loaded: init(), then loadPreset(presets['kossel-standard']).
InitUI ==
    \E s \in {loadPreset(appInit, KosselStandard)} :
        /\ app = s.app
        /\ config = s.config
        /\ buildConfig = s.buildConfig
        /\ constraintCalculator = s.constraintCalculator
        /\ ret = NoCall

\* updateValue of a parameter's slider or input.  No method of the names in
\* updateMethod exists, so the field is assigned and the scene rebuilt.  What
\* the listeners of UIManager on the effector's controls assign before it,
\* updateValue and rebuildScene assign again.
ParameterChange ==
    \E input \in SliderInputs :
        \E clampedValue \in {clamp(input[2], PARAMETER_LIMITS[input[1]].min,
                                   PARAMETER_LIMITS[input[1]].max)} :
            \E s \in {rebuildScene([app |-> [app EXCEPT
                                                ![input[1]] = clampedValue,
                                                !.controls = presetControls(
                                                    app.controls,
                                                    [f \in {input[1]} |-> clampedValue])],
                                    config |-> config,
                                    buildConfig |-> buildConfig,
                                    constraintCalculator |-> constraintCalculator])} :
                Becomes(s)

\* updatePhysicalBed
PhysicalBedChange ==
    \E value \in BedInputs :
        \E clampedValue \in {clamp(value, Mm(50), Mm(200))} :
            \E s \in {initBuildPlate(appCalculateBuildVolume(
                          [app |-> [app EXCEPT
                                       !.physical_bed_radius = clampedValue,
                                       !.controls.physical_bed_radius = clampedValue],
                           config |-> config,
                           buildConfig |-> buildConfig,
                           constraintCalculator |-> constraintCalculator]))} :
                Becomes(s)

\* A click on a preset button.
LoadPreset ==
    \E preset \in Presets :
        \E s \in {loadPreset(appState, preset)} : Becomes(s)

\* A click on the randomize button.
Randomize ==
    \E draw \in RandomTenths :
        \E s \in {loadPreset(appState, randomPreset(draw))} : Becomes(s)

\* A constraint radio becomes checked: the listener of UIManager, then the
\* one of setupParameterControls, then the one of setupBuildPlateConstraints.
ConstraintTypeChange ==
    \E value \in ConstraintTypes \ {app.constraint_type} :
        \E s \in {rebuildScene(appSetConstraintType(
                      appSetConstraintType(triggerConfigurationUpdate(appState, value), value),
                      value))} :
            Becomes(s)

\* The effector selector changes to 'standard': UIManager sets the controls
\* and updates the app from them, then applyEffectorConfig and
\* updateParameterInputs of main.ts.
EffectorTypeChange ==
    \E s \in {rebuildScene(
                  [s1 EXCEPT !.app.effector_radius = Mm(40), !.app.eff_spacing = Mm(46)]) :
              s1 \in {triggerConfigurationUpdate(
                          [appState EXCEPT !.app.controls.effector_radius = Mm(40),
                                           !.app.controls.eff_spacing = Mm(46)],
                          app.constraint_type)}} :
        Becomes(s)

NextUI ==
    \/ ParameterChange
    \/ PhysicalBedChange
    \/ LoadPreset
    \/ Randomize
    \/ ConstraintTypeChange
    \/ EffectorTypeChange

SpecUI == InitUI /\ [][NextUI]_vars

----------------------------------------------------------------------------
\* The dependent parameters, applied again and again.  SpecSettle constructs
\* the instance with a configuration of DependentConfigs and repeats:
\* calculateDependentParameters(), then updateConfig() with what it returned.
\* The caller goes on for ever, so both steps are taken whenever they can be.

DependentConfigs ==
    {[KosselStandard EXCEPT !.bot_radius = Mm(br), !.diagonal_rod_length = Mm(dr),
                            !.tower_offset = Mm(to), !.effector_radius = Mm(er),
                            !.arm_length = Mm(al)] :
        br \in {50, 195, 400}, dr \in {150, 240, 400}, to \in {0, 25},
        er \in {20, 40, 80}, al \in {100, 315}}

InitSettle ==
    /\ config \in DependentConfigs
    /\ buildConfig = [physical_bed_radius |-> Mm(120), constraint_type |-> "effector-edge"]
    /\ constraintCalculator = newConstraintCalculator(config, buildConfig.physical_bed_radius)
    /\ ret = NoCall
    /\ app = NoApp

CalculateDependentParameters ==
    /\ ret.op # "calculateDependentParameters"
    /\ ret' = [op |-> "calculateDependentParameters",
               value |-> calculateDependentParameters(config)]
    /\ UNCHANGED <<config, buildConfig, constraintCalculator, app>>

\* updateConfig(updates), with the updates just returned
ApplyDependentParameters ==
    /\ ret.op = "calculateDependentParameters"
    /\ config' = updateConfig(config, constraintCalculator, ret.value).config
    /\ constraintCalculator' =
          updateConfig(config, constraintCalculator, ret.value).constraintCalculator
    /\ ret' = [op |-> "updateConfig", arg |-> ret.value]
    /\ UNCHANGED <<buildConfig, app>>

NextSettle ==
    \/ CalculateDependentParameters
    \/ ApplyDependentParameters

SpecSettle == InitSettle /\ [][NextSettle]_vars /\ WF_vars(NextSettle)

----------------------------------------------------------------------------
\* Homing.  SpecHome is the loaded page with its effector: the Home button
\* (homeEffector), the interval timers it sets (updateHoming) and the frames
\* of the render loop (effectorAnimate).  app holds homeState, homeTimer, the
\* interval timers that are set and not cleared, the effector's position and
\* the two heights initBotGeometry computes, and the number of calls of
\* updateHoming since the last frame.  The timers fire every 1000 / 60 ms and
\* the frames come at the rate of the display, so at most MaxTicksPerFrame
\* calls of updateHoming come between two frames.  The keys are left alone,
\* so the effector's velocity is 0, and no parameter is changed.

\* homeTimer before the first setInterval.
NoTimer == 0

\* The calls of homeEffector explored.
MaxHomeCalls == 2

\* The calls of updateHoming between two frames.
MaxTicksPerFrame == 2

\* The fields of the app that homing reads and writes, those of the page s
\* once initBotGeometry and setupEffectorProperties have run.
homeApp(s) ==
    [homeState |-> 0,
     homeTimer |-> NoTimer,
     timers |-> {},
     timersSet |-> 0,
     ticksSinceFrame |-> 0,
     effector |-> [x |-> 0, y |-> -(s.app.bot_height \div 4), z |-> 0],
     effector_endstop_z |-> s.app.bot_height \div 2 - s.app.arm_length
                              - s.app.carriage_height \div 2,
     effector_zero_z |-> -(s.app.bot_height \div 2) + Mm(EFFECTOR_HEIGHT) \div 2]

InitHome ==
    \E s \in {loadPreset(appInit, KosselStandard)} :
        /\ app = homeApp(s)
        /\ config = s.config
        /\ buildConfig = s.buildConfig
        /\ constraintCalculator = s.constraintCalculator
        /\ ret = NoCall

\* DeltabotApp.homeEffector: window.setInterval gives a new timer, whose
\* identifier replaces homeTimer.
homeEffector(a) ==
    [a EXCEPT !.homeState = 1,
              !.homeTimer = a.timersSet + 1,
              !.timers = a.timers \cup {a.timersSet + 1},
              !.timersSet = a.timersSet + 1]

\* Math.floor of a length, in the unit of the model.
MathFloor(v) == (v \div Scale) * Scale

\* DeltabotApp.updateHoming with an effector.  pc is a tenth of the way to
\* dest; the tests on pc are made on the whole way, ten times m.
updateHoming(a) ==
    LET m == Mm(1) \div 2
        p == a.effector
        hs == a.homeState
        zeroxy == hs > 1
        dx == IF zeroxy THEN 0 ELSE p.x
        dy == IF zeroxy THEN 0 ELSE p.z
        dz == IF hs = 3 THEN a.effector_zero_z ELSE a.effector_endstop_z
        dest == [x |-> dx, y |-> dz, z |-> dy]
        way == [x |-> Minus(dest.x, p.x), y |-> Minus(dest.y, p.y), z |-> Minus(dest.z, p.z)]
        pc == [x |-> IF isNaN(way.x) THEN NaN ELSE RoundDiv(way.x, 10),
               y |-> IF isNaN(way.y) THEN NaN ELSE RoundDiv(way.y, 10),
               z |-> IF isNaN(way.z) THEN NaN ELSE RoundDiv(way.z, 10)]
        arrived ==
            \/ hs = 1 /\ GT(way.y, -10 * m) /\ LT(way.y, 10 * m)
            \/ hs = 2 /\ GT(way.x, -10 * m) /\ LT(way.x, 10 * m)
                      /\ GT(way.z, -10 * m) /\ LT(way.z, 10 * m)
            \/ hs = 3 /\ ~isNaN(p.y) /\ MathFloor(p.y) = a.effector_zero_z
        moved == [x |-> Plus(p.x, pc.x), y |-> Plus(p.y, pc.y), z |-> Plus(p.z, pc.z)]
    IN  IF arrived
        THEN IF hs + 1 > 3
             THEN [a EXCEPT !.homeState = 0,
                            !.timers = a.timers \ {a.homeTimer},
                            !.effector = moved]
             ELSE [a EXCEPT !.homeState = hs + 1, !.effector = moved]
        ELSE [a EXCEPT !.effector = moved]

\* The click on the Home button.
HomeEffector ==
    /\ app.timersSet < MaxHomeCalls
    /\ app' = homeEffector(app)
    /\ UNCHANGED <<config, buildConfig, constraintCalculator, ret>>

\* An interval timer that is set fires.
UpdateHoming ==
    \E timer \in app.timers :
        /\ app.ticksSinceFrame < MaxTicksPerFrame
        /\ app' = [updateHoming(app) EXCEPT !.ticksSinceFrame = app.ticksSinceFrame + 1]
        /\ UNCHANGED <<config, buildConfig, constraintCalculator, ret>>

\* A frame of renderLoop: effectorAnimate, with velocity 0, gives the effector
\* the position constrainPosition returns for its own.
EffectorAnimate ==
    /\ app' = [app EXCEPT !.effector =
                   constrainPosition(config, buildConfig, constraintCalculator, app.effector),
                          !.ticksSinceFrame = 0]
    /\ constraintCalculator' = syncedCalculator(config, buildConfig, constraintCalculator)
    /\ UNCHANGED <<config, buildConfig, ret>>

NextHome ==
    \/ HomeEffector
    \/ UpdateHoming
    \/ EffectorAnimate

\* The timers that are set keep firing and the render loop keeps running.
SpecHome ==
    InitHome /\ [][NextHome]_vars /\ WF_vars(UpdateHoming) /\ WF_vars(EffectorAnimate)

----------------------------------------------------------------------------
\* Properties.  A property of a call is stated of the state right after the
\* call: ret holds its argument and its value, and config, buildConfig and
\* constraintCalculator are as the call left them.

Center == [x |-> 0, y |-> 0, z |-> 0]

Sq(a) == a * a

\* The build volume's vertical range (calculateBuildHeight, lines 192-193).
effectorZeroZ(cfg) == -(cfg.bot_height \div 2) + Mm(EFFECTOR_HEIGHT) \div 2

effectorEndstopZ(cfg) == cfg.bot_height \div 2 - cfg.arm_length - cfg.carriage_height \div 2

InBuildVolume(cfg, bcfg, c, p) ==
    /\ Sq(p.x) + Sq(p.y) =< Sq(calculateBuildVolume(cfg, bcfg, c).maxPrintRadius)
    /\ effectorZeroZ(cfg) =< p.z
    /\ p.z =< effectorEndstopZ(cfg)

\* C1: every effector position within maxPrintRadius of the axis and within
\* the build volume's vertical range is reported reachable by validatePosition.
C1_BuildVolumeIsReachable ==
    (/\ ret.op = "validatePosition"
     /\ InBuildVolume(config, buildConfig, constraintCalculator, ret.arg))
    => ret.value.is_reachable

\* Squared horizontal distance from tower i's anchor to the effector position,
\* with the coordinates validatePosition takes as horizontal (line 253).
AnchorDistSq(cfg, p, i) ==
    LET towerPos == calculateTowerPosition(i, cfg.bot_radius)
    IN  Sq(towerPos.x - p.x) + Sq(towerPos.y - p.y)

\* The nub of tower i with the effector at p.
NubWorldPos(cfg, p, i) ==
    LET nub == calculateArmPosition(i * 2, cfg.effector_radius, 0, TRUE)
    IN  [x |-> p.x + nub.x, y |-> p.y + nub.y, z |-> Plus(p.z, nub.z)]

\* Squared horizontal distance from tower i's anchor to tower i's nub.
NubDistSq(cfg, p, i) ==
    LET towerPos == calculateTowerPosition(i, cfg.bot_radius)
        nub == NubWorldPos(cfg, p, i)
    IN  Sq(towerPos.x - nub.x) + Sq(towerPos.y - nub.y)

\* C2, as claimed: an effector position farther than arm_length from a
\* tower's anchor gets NaN for that tower and is not reachable.
C2_FarFromAnchorIsNaN ==
    ret.op = "validatePosition" =>
        \A i \in Towers :
            AnchorDistSq(config, ret.arg, i) > Sq(config.arm_length)
            => (isNaN(ret.value.carriage_positions[i]) /\ ~ret.value.is_reachable)

\* C2, amended: when tower i's effector nub (the effector position plus the
\* nub offset) is farther than arm_length from tower i's anchor, the carriage
\* position of tower i is NaN, never a substituted number, and the position is
\* not reachable.
C2_NubFarFromAnchorIsNaN ==
    ret.op = "validatePosition" =>
        \A i \in Towers :
            NubDistSq(config, ret.arg, i) > Sq(config.arm_length)
            => (isNaN(ret.value.carriage_positions[i]) /\ ~ret.value.is_reachable)

C2_Witness ==
    /\ ret.op = "validatePosition"
    /\ \E i \in Towers : NubDistSq(config, ret.arg, i) > Sq(config.arm_length)
    /\ \E i \in Towers : NubDistSq(config, ret.arg, i) =< Sq(config.arm_length)
    /\ ~ret.value.is_reachable

\* C3: is_reachable is true iff the three values of calculateCarriagePositions
\* are numbers within [-bot_height/2 + carriage_height/2,
\* bot_height/2 - carriage_height/2]; carriage_positions are those values and
\* the position is returned unchanged.
C3_ReachableIffInTravel ==
    ret.op = "validatePosition" =>
        LET cps == calculateCarriagePositions(config, ret.arg)
            lo == -(config.bot_height \div 2) + config.carriage_height \div 2
            hi == config.bot_height \div 2 - config.carriage_height \div 2
        IN  /\ ret.value.is_reachable <=>
                  \A i \in Towers : ~isNaN(cps[i]) /\ lo =< cps[i] /\ cps[i] =< hi
            /\ ret.value.carriage_positions = cps
            /\ ret.value.position = ret.arg

\* A reachable position off the axis.
C3_Witness ==
    /\ ret.op = "validatePosition"
    /\ ret.value.is_reachable
    /\ ret.arg.x # 0

\* C4: constrainPosition is idempotent: constraining a constrained position
\* gives that position again, in all three coordinates.
C4_ConstrainIdempotent ==
    ret.op = "constrainPosition" =>
        constrainPosition(config, buildConfig, constraintCalculator, ret.value) = ret.value

\* The values of calculateBuildVolume that C5 is about.
Envelope(bv) == <<bv.maxPrintRadius, bv.recommendedPrintRadius, bv.buildVolumeHeight>>

\* The value of calculateBuildVolume after updateBuildConfig(newBuildConfig).
BuildVolumeAfter(cfg, bcfg, c, newBuildConfig) ==
    LET u == updateBuildConfig(bcfg, c, newBuildConfig)
    IN  calculateBuildVolume(cfg, u.buildConfig, u.constraintCalculator)

\* C5: changing only physical_bed_radius between two calls of
\* calculateBuildVolume leaves maxPrintRadius, recommendedPrintRadius and
\* buildVolumeHeight as the first call returned them.
C5_BedRadiusLeavesEnvelope ==
    ret.op = "calculateBuildVolume" =>
        \A r \in BedRadii :
            Envelope(BuildVolumeAfter(config, buildConfig, constraintCalculator,
                                      [physical_bed_radius |-> Mm(r)]))
                = Envelope(ret.value)

\* The bed is smaller than the print radius, and a larger bed can be set.
C5_Witness ==
    /\ ret.op = "calculateBuildVolume"
    /\ buildConfig.physical_bed_radius < ret.value.maxPrintRadius
    /\ \E r \in BedRadii : Mm(r) > ret.value.maxPrintRadius

\* C6: for a reachable position and every tower, the squared horizontal
\* distance from the tower's anchor to the tower's nub plus the squared
\* vertical offset v from the nub to the returned carriage position is
\* arm_length squared, to within the rounding of the square root (an error
\* of at most 1/2 in v is an error of at most v in v squared).
C6_ArmLengthReconstructed ==
    (ret.op = "validatePosition" /\ ret.value.is_reachable) =>
        \A i \in Towers :
            LET v == ret.value.carriage_positions[i] - NubWorldPos(config, ret.arg, i).z
            IN  /\ v >= 0
                /\ Abs(NubDistSq(config, ret.arg, i) + Sq(v) - Sq(config.arm_length)) =< v

\* A reachable position off the axis and off the mid height.
C6_Witness ==
    /\ ret.op = "validatePosition"
    /\ ret.value.is_reachable
    /\ ret.arg.x # 0
    /\ ret.arg.z # 0

\* C7: with the effector at the center, calculateCarriagePositions returns
\* three equal values, for the Kossel-standard preset and whenever the center
\* is reachable.
C7_CenterIsSymmetric ==
    (/\ ret.op = "calculateCarriagePositions"
     /\ ret.arg = Center
     /\ (config = KosselStandard \/ validatePosition(config, Center).is_reachable))
    => /\ ret.value[0] = ret.value[1]
       /\ ret.value[1] = ret.value[2]

\* The candidate radii of the search: 0, 5, 10, ... up to bot_radius + 50.
Candidates(c) == {r \in 0 .. (c.config.bot_radius + Mm(50)) : r % Mm(5) = 0}

\* The carriage position tower needs with the effector at radius r towards it,
\* at the height the search tests.
RequiredAt(c, tower, r) ==
    calculateRequiredCarriageY(c, tower,
        [x |-> MulTrig(CosConstraintTower(tower), r),
         y |-> -(c.config.bot_height \div 2) + c.config.carriage_height \div 2 + Mm(50),
         z |-> MulTrig(SinConstraintTower(tower), r)])

\* At radius r the required carriage position of all three towers is a number
\* within [minCarriageY, maxCarriageY].
Feasible(c, r) ==
    \A tower \in Towers :
        /\ ~isNaN(RequiredAt(c, tower, r))
        /\ RequiredAt(c, tower, r) >= -(c.config.bot_height \div 2) + c.config.carriage_height \div 2
        /\ RequiredAt(c, tower, r) =< c.config.bot_height \div 2 - c.config.carriage_height \div 2

\* C8, as claimed: calculateCarriageConstrainedRadius returns the largest of
\* the candidate radii that are feasible.
C8_LargestFeasibleCandidate ==
    (/\ ret.op = "getCarriageConstraintAnalysis"
     /\ \E r \in Candidates(constraintCalculator) : Feasible(constraintCalculator, r))
    => /\ ret.value \in Candidates(constraintCalculator)
       /\ Feasible(constraintCalculator, ret.value)
       /\ \A r \in Candidates(constraintCalculator) :
              Feasible(constraintCalculator, r) => r =< ret.value

\* C8, amended: calculateCarriageConstrainedRadius returns the largest
\* candidate radius r such that r and every candidate below r is feasible,
\* and 0 when candidate 0 is not feasible.
C8_LargestOfFeasiblePrefix ==
    ret.op = "getCarriageConstraintAnalysis" =>
        LET c == constraintCalculator
            Prefix == {r \in Candidates(c) :
                          \A q \in Candidates(c) : q =< r => Feasible(c, q)}
        IN  IF Prefix = {} THEN ret.value = 0
            ELSE /\ ret.value \in Prefix
                 /\ \A r \in Prefix : r =< ret.value

\* The search stopped at a positive radius below a feasible candidate.
C8_Witness ==
    /\ ret.op = "getCarriageConstraintAnalysis"
    /\ ret.value > 0
    /\ \E r \in Candidates(constraintCalculator) :
           r > ret.value /\ Feasible(constraintCalculator, r)

ArmStep == 25

MaxArmStep == 12

\* The arm lengths a configuration's arm is compared with: 50, 75, ... mm.
ComparedArms == {Mm(50 + ArmStep * k) : k \in 0 .. MaxArmStep}

\* calculateCarriageConstrainedRadius after updateConfig({arm_length}).
RadiusWithArm(cfg, c, armLength) ==
    calculateCarriageConstrainedRadius(
        updateConfig(cfg, c, [f \in {"arm_length"} |-> armLength]).constraintCalculator)

\* C9, as claimed: of two configurations that differ only in arm_length, the
\* one with the shorter arm never gets the larger constrained radius.
C9_ShorterArmNeverLarger ==
    ret.op = "getCarriageConstraintAnalysis" =>
        \A a \in ComparedArms :
            a < config.arm_length
            => RadiusWithArm(config, constraintCalculator, a) =< ret.value

\* C9, amended: of two configurations that differ only in arm_length, where
\* the longer arm is at most bot_height - carriage_height - 50 mm (so that the
\* arm standing upright at the test height keeps the carriage on its travel),
\* the one with the shorter arm never gets the larger constrained radius.
C9_ShorterArmNeverLargerInTravel ==
    (/\ ret.op = "getCarriageConstraintAnalysis"
     /\ config.arm_length =< config.bot_height - config.carriage_height - Mm(50))
    => \A a \in ComparedArms :
           a < config.arm_length
           => RadiusWithArm(config, constraintCalculator, a) =< ret.value

\* A shorter arm with a strictly smaller radius, and one with the same radius.
C9_Witness ==
    /\ ret.op = "getCarriageConstraintAnalysis"
    /\ config.arm_length =< config.bot_height - config.carriage_height - Mm(50)
    /\ \E a \in ComparedArms :
           /\ a < config.arm_length
           /\ RadiusWithArm(config, constraintCalculator, a) < ret.value
    /\ \E a \in ComparedArms :
           /\ a < config.arm_length
           /\ RadiusWithArm(config, constraintCalculator, a) = ret.value
           /\ ret.value > 0

\* The bound of a constraint type, with margin the calculator's collision offset.
TypeBound(c) ==
    IF c.constraintType = "effector-tip"
    THEN c.config.bot_radius - c.config.rod_radius - c.towerCollisionOffset
    ELSE IF c.constraintType = "horizontal-extrusions"
    THEN c.config.bot_radius - Mm(20) - c.towerCollisionOffset
    ELSE c.config.bot_radius - c.config.rod_radius - c.config.effector_radius
             - c.towerCollisionOffset

Min2(a, b) == IF a < b THEN a ELSE b

Max2(a, b) == IF a > b THEN a ELSE b

\* C10: calculateRealBuildPlateRadius is max(0, min(bound, carriage constrained
\* radius)), bound being that of the type last set on the calculator, and the
\* margin 10 mm.
C10_RealRadiusIsClampedBound ==
    ret.op = "calculateRealBuildPlateRadius" =>
        /\ constraintCalculator.towerCollisionOffset = Mm(10)
        /\ ret.value = Max2(0, Min2(TypeBound(constraintCalculator),
                                    calculateCarriageConstrainedRadius(constraintCalculator)))

\* The type last set is effector-tip and its bound is the smaller value.
C10_Witness ==
    /\ ret.op = "calculateRealBuildPlateRadius"
    /\ constraintCalculator.constraintType = "effector-tip"
    /\ ret.value = TypeBound(constraintCalculator)
    /\ ret.value < calculateCarriageConstrainedRadius(constraintCalculator)

\* No candidate radius of the search is feasible.
NoFeasibleRadius(c) == \A r \in Candidates(c) : ~Feasible(c, r)

\* C11: on every configuration, the degenerate ones too, and for every
\* constraint type calculateRealBuildPlateRadius returns a number that is not
\* negative, and 0 when no radius is feasible.
C11_RadiusNeverNegative ==
    ret.op = "calculateRealBuildPlateRadius" =>
        /\ ret.value \in Nat
        /\ NoFeasibleRadius(constraintCalculator) => ret.value = 0

\* A frame radius smaller than the margins although some radius is feasible.
C11_Witness ==
    /\ ret.op = "calculateRealBuildPlateRadius"
    /\ TypeBound(constraintCalculator) < 0
    /\ ~NoFeasibleRadius(constraintCalculator)
    /\ ret.value = 0

\* An arm too short: no radius is feasible and the bound of the type is positive.
C11_WitnessNoRadius ==
    /\ ret.op = "calculateRealBuildPlateRadius"
    /\ NoFeasibleRadius(constraintCalculator)
    /\ TypeBound(constraintCalculator) > 0
    /\ ret.value = 0

\* The real build plate radius of a calculator with config cfg and the
\* constraint type type.
RealRadiusFor(cfg, c, type) ==
    LET synced == setConstraintType(constraintCalculatorUpdateConfig(c, cfg), type)
    IN  Max2(0, Min2(TypeBound(synced), calculateCarriageConstrainedRadius(synced)))

\* C12: calculateBuildVolume returns as maxPrintRadius the smaller of the real
\* build plate radius for the configured constraint type and the kinematic
\* limit, and as recommendedPrintRadius 0.9 * maxPrintRadius (to the nearest
\* unit), so that 0 <= recommendedPrintRadius <= maxPrintRadius.
C12_MaxIsMinOfRealAndKinematic ==
    ret.op = "calculateBuildVolume" =>
        /\ ret.value.maxPrintRadius =
              Min2(RealRadiusFor(config, constraintCalculator, buildConfig.constraint_type),
                   calculateKinematicLimit(config))
        /\ Abs(10 * ret.value.recommendedPrintRadius - 9 * ret.value.maxPrintRadius) =< 5
        /\ 0 =< ret.value.recommendedPrintRadius
        /\ ret.value.recommendedPrintRadius =< ret.value.maxPrintRadius

\* A build volume with a positive radius under a type other than the one the
\* calculator is constructed with.
C12_Witness ==
    /\ ret.op = "calculateBuildVolume"
    /\ buildConfig.constraint_type = "effector-tip"
    /\ ret.value.maxPrintRadius > 0
    /\ ret.value.recommendedPrintRadius < ret.value.maxPrintRadius
    /\ ret.value.maxPrintRadius <
          calculateCarriageConstrainedRadius(constraintCalculator)

\* C13: for a configuration with a positive bot_radius and a rod_radius that
\* is not negative (the Kossel-standard preset is one), under each of the
\* three constraint types, calculateBuildVolume().maxPrintRadius is strictly
\* less than bot_radius.
C13_MaxRadiusInsideTowers ==
    (/\ ret.op = "calculateBuildVolume"
     /\ config.bot_radius > 0
     /\ config.rod_radius >= 0)
    => ret.value.maxPrintRadius < config.bot_radius

\* The bound of the type, less than a margin inside the towers, is what limits
\* the radius: the carriages would allow the effector to pass the towers.
C13_Witness ==
    /\ ret.op = "calculateBuildVolume"
    /\ config.bot_radius > 0
    /\ config.rod_radius = 0
    /\ buildConfig.constraint_type = "effector-tip"
    /\ calculateCarriageConstrainedRadius(constraintCalculator) >= config.bot_radius
    /\ ret.value.maxPrintRadius = config.bot_radius - Mm(10)

\* Cosine and sine, in 1/TrigDen, of an angle of d degrees, d a multiple of 30.
CosDeg(d) ==
    CASE d % 360 = 0 -> 10000   [] d % 360 = 30 -> 8660    [] d % 360 = 60 -> 5000
      [] d % 360 = 90 -> 0      [] d % 360 = 120 -> -5000  [] d % 360 = 150 -> -8660
      [] d % 360 = 180 -> -10000 [] d % 360 = 210 -> -8660 [] d % 360 = 240 -> -5000
      [] d % 360 = 270 -> 0     [] d % 360 = 300 -> 5000   [] d % 360 = 330 -> 8660

SinDeg(d) == CosDeg(d + 270)

\* The ways to measure an angle in the horizontal plane of the towers (x, z):
\* the reference axis is one of the four half axes, at d0 degrees from +x
\* towards +z, and the angle grows towards +z (sense 1) or away (sense -1).
ReferenceAxes == [d0 : {0, 90, 180, 270}, sense : {1, -1}]

\* The point at angle d from the reference axis and distance radius from the
\* central axis, at vertical coordinate 0.
PointAt(axis, d, radius) ==
    [x |-> MulTrig(CosDeg(axis.d0 + 360 + axis.sense * d), radius),
     y |-> 0,
     z |-> MulTrig(SinDeg(axis.d0 + 360 + axis.sense * d), radius)]

\* C14: calculateTowerPosition(i, r) is the point at i * 120 + 30 degrees from
\* the reference axis, at distance r from the central axis and at vertical
\* coordinate 0: one reference axis for the three towers.
C14_TowerAtIndexAngle ==
    ret.op = "calculateTowerPosition" =>
        \E axis \in ReferenceAxes :
            /\ ret.value = PointAt(axis, ret.towerIndex * 120 + 30, ret.radius)
            /\ \A i \in Towers :
                  calculateTowerPosition(i, ret.radius) = PointAt(axis, i * 120 + 30, ret.radius)

\* What the towers' placement does satisfy: tower i is at i * 120 + 60 degrees
\* from +z towards +x, at vertical coordinate 0.
TowerAtSixtyFromZ ==
    ret.op = "calculateTowerPosition" =>
        ret.value = PointAt([d0 |-> 90, sense |-> -1], ret.towerIndex * 120 + 60, ret.radius)

\* The value calculateOptimalArmLength starts from and the interval it is
\* limited to.
BaseArmLength(cfg) ==
    cfg.bot_radius * 2 - cfg.effector_radius * 2 - cfg.carriage_inset + cfg.carriage_height

MinArmLength(cfg) == RoundDiv(cfg.bot_radius * 8, 10)

MaxVerticalLength(cfg) == cfg.bot_height - cfg.carriage_height \div 2

\* C15, as claimed: calculateOptimalArmLength is never below bot_radius * 0.8,
\* never above bot_height - carriage_height / 2, and is
\* bot_radius * 2 - effector_radius * 2 - carriage_inset + carriage_height
\* whenever that lies within the two.
C15_OptimalArmWithinInterval ==
    ret.op = "calculateOptimalArmLength" =>
        /\ ret.value >= MinArmLength(config)
        /\ ret.value =< MaxVerticalLength(config)
        /\ (/\ MinArmLength(config) =< BaseArmLength(config)
            /\ BaseArmLength(config) =< MaxVerticalLength(config))
           => ret.value = BaseArmLength(config)

\* C15, amended: calculateOptimalArmLength is never below bot_radius * 0.8; it
\* is not above bot_height - carriage_height / 2 unless bot_radius * 0.8 is,
\* and then it is bot_radius * 0.8; it is the base value whenever that lies
\* within the two.
C15_OptimalArmMinimumWins ==
    ret.op = "calculateOptimalArmLength" =>
        /\ ret.value >= MinArmLength(config)
        /\ MinArmLength(config) =< MaxVerticalLength(config)
           => ret.value =< MaxVerticalLength(config)
        /\ MinArmLength(config) > MaxVerticalLength(config)
           => ret.value = MinArmLength(config)
        /\ (/\ MinArmLength(config) =< BaseArmLength(config)
            /\ BaseArmLength(config) =< MaxVerticalLength(config))
           => ret.value = BaseArmLength(config)

\* A frame so wide and low that bot_radius * 0.8 exceeds the vertical space.
C15_Witness ==
    /\ ret.op = "calculateOptimalArmLength"
    /\ MinArmLength(config) > MaxVerticalLength(config)
    /\ ret.value = MinArmLength(config)

\* The four operations C16 is about.
FrameCalls ==
    {"calculateCarriagePositions", "calculateBuildVolume", "constrainPosition",
     "calculateRealBuildPlateRadius"}

\* What the four return in a state of the instance, for every argument.
Observed(cfg, bcfg, c) ==
    [calculateRealBuildPlateRadius |-> calculateRealBuildPlateRadius(c),
     calculateBuildVolume |-> calculateBuildVolume(cfg, bcfg, c),
     constrainPosition |-> [p \in Positions |-> constrainPosition(cfg, bcfg, c, p)],
     calculateCarriagePositions |-> [p \in Positions |-> calculateCarriagePositions(cfg, p)]]

\* C16: a call of calculateCarriagePositions, calculateBuildVolume,
\* constrainPosition or calculateRealBuildPlateRadius, in any state of the
\* instance from its construction on, leaves what each of the four returns
\* for the same arguments as it was before the call.
C16_CallsChangeNothing ==
    [][(ret = NoCall /\ ret'.op \in FrameCalls)
       => Observed(config', buildConfig', constraintCalculator')
          = Observed(config, buildConfig, constraintCalculator)]_vars

\* The effector position p with the search's naming of the axes: the facade
\* adds the arm's vertical component to z, the search to y.
VerticalInY(p) == [x |-> p.x, y |-> p.z, z |-> p.y]

\* C18: for each tower, the carriage position the radial search computes for
\* an effector position (calculateRequiredCarriageY) is the one
\* calculateCarriagePositions returns for that tower at the same position and
\* configuration, whichever of the two namings of the vertical axis is meant.
C18_SearchUsesFacadeKinematics ==
    ret.op = "calculateCarriagePositions" =>
        \/ \A i \in Towers :
              calculateRequiredCarriageY(constraintCalculator, i, ret.arg) = ret.value[i]
        \/ \A i \in Towers :
              calculateRequiredCarriageY(constraintCalculator, i, VerticalInY(ret.arg))
                 = ret.value[i]

\* The direction, in 1/TrigDen, in which the constraint calculator's search
\* and carriage solve place tower i: (x, z) = (cos, sin) of i * 120 degrees.
ConstraintTowerDirection(i) ==
    [x |-> MulTrig(CosConstraintTower(i), TrigDen),
     y |-> 0,
     z |-> MulTrig(SinConstraintTower(i), TrigDen)]

\* C19: for each tower, the direction of the tower in the constraint
\* calculator's search and carriage solve, and the angle calculateTowerAngles
\* reports (measured from some reference axis, one for the three towers), are
\* those at which calculateTowerPosition places the tower.
C19_OneAngularLayout ==
    ret.op = "calculateTowerAngles" =>
        /\ \A i \in Towers :
              ConstraintTowerDirection(i) = calculateTowerPosition(i, TrigDen)
        /\ \E axis \in ReferenceAxes :
              \A i \in Towers :
                  PointAt(axis, ret.value[i + 1], TrigDen) = calculateTowerPosition(i, TrigDen)

\* The lowest position applyCarriageConstraints allows a carriage.
MinAllowedCarriageZ(cfg) ==
    Max2(-(cfg.bot_height \div 2) + Mm(PLATFORM_HEIGHT) + Mm(10),
         -(cfg.bot_height \div 2) + Mm(25))

C17_ParametersWithinLimits ==
    app # NoApp =>
        \A f \in DOMAIN PARAMETER_LIMITS :
            /\ app[f] >= PARAMETER_LIMITS[f].min
            /\ app[f] =< PARAMETER_LIMITS[f].max

\* The vertical range of constrainPosition.
MinZ(cfg) == -(cfg.bot_height \div 2) + Mm(EFFECTOR_HEIGHT) \div 2

MaxZ(cfg) == cfg.bot_height \div 2 - cfg.arm_length - cfg.carriage_height \div 2

\* C21: when -bot_height/2 + effectorHeight/2 <= bot_height/2 - arm_length -
\* carriage_height/2, the vertical coordinate of the position constrainPosition
\* returns is within these two values.
C21_VerticalWithinRange ==
    (ret.op = "constrainPosition" /\ MinZ(config) =< MaxZ(config))
    => GE(ret.value.z, MinZ(config)) /\ LE(ret.value.z, MaxZ(config))

\* The position returned is a number above the range: the effector was
\* raised for the lowest carriage and the raised height was not limited.
RaisedAboveRange ==
    /\ ret.op = "constrainPosition"
    /\ MinZ(config) =< MaxZ(config)
    /\ GT(ret.value.z, MaxZ(config))

\* buildVolume.maxPrintRadius as constrainPosition read it: the call leaves
\* the calculator as its calculateBuildVolume set it.
ConstraintRadius == calculateBuildVolume(config, buildConfig, constraintCalculator).maxPrintRadius

NoUpdates == DOMAIN calculateDependentParameters(config) = {}

\* C23: when the updates calculateDependentParameters returns are applied
\* with updateConfig again and again, a configuration for which it returns no
\* update is reached, and from then on it returns none.
C23_UpdatesSettle == <>[]NoUpdates

\* An application changed the arm length alone, which the application before
\* it had already set, and left a configuration with no update.
C23_Witness ==
    /\ ret.op = "updateConfig"
    /\ DOMAIN ret.arg = {"arm_length"}
    /\ config.effector_radius = Mm(config.bot_radius \div (4 * Scale))
    /\ config.effector_radius \notin {Mm(20), Mm(40), Mm(80)}
    /\ NoUpdates

----------------------------------------------------------------------------
\* The real build plate radius of the calculator with the constraint type set
\* to type.
RealRadiusUnder(type) ==
    calculateRealBuildPlateRadius([constraintCalculator EXCEPT !.constraintType = type])

\* C24: with effector_radius >= 0 the real build plate radius under
\* effector-edge is never larger than the one under effector-tip.
C24_EdgeNeverAboveTip ==
    constraintCalculator.config.effector_radius >= 0 =>
        LE(RealRadiusUnder("effector-edge"), RealRadiusUnder("effector-tip"))

\* calculateRealBuildPlateRadius has answered under effector-tip with a radius
\* that is larger than the one of effector-edge, the tower's clearance and not
\* the carriages being the limit.
C24_Witness ==
    /\ ret.op = "calculateRealBuildPlateRadius"
    /\ constraintCalculator.constraintType = "effector-tip"
    /\ constraintCalculator.config.effector_radius > 0
    /\ ret.value = RealRadiusUnder("effector-tip")
    /\ ret.value > RealRadiusUnder("effector-edge")
    /\ RealRadiusUnder("effector-edge") > 0

----------------------------------------------------------------------------
\* The tower center point of an arm at a radius, and the unit vector, in
\* 1/TrigDen, at 90 degrees from the tower's radial direction: towers are at
\* 60, 180 and 300 degrees from +z towards +x.
TowerCenter(armIndex, radius) == calculateTowerPosition(armIndex \div 2, radius)

Perpendicular(armIndex) ==
    [x |-> SinDeg((armIndex \div 2) * 120 + 60 + 90),
     z |-> CosDeg((armIndex \div 2) * 120 + 60 + 90)]

Radial(armIndex) ==
    [x |-> SinDeg((armIndex \div 2) * 120 + 60),
     z |-> CosDeg((armIndex \div 2) * 120 + 60)]

\* The other arm of the tower.
Partner(armIndex) == IF armIndex % 2 = 0 THEN armIndex + 1 ELSE armIndex - 1

\* C25: with a spacing other than 0 and not centerOnly, the arm's position is
\* the tower center point moved by spacing / 2 along the perpendicular of the
\* radial direction, towards +1 for an even index and -1 for an odd one, so
\* that the two arms of a tower are at that distance on opposite sides of the
\* center point; with centerOnly or spacing 0 it is the center point.
C25_ArmsAcrossTowerCenter ==
    ret.op = "calculateArmPosition" =>
        LET center == TowerCenter(ret.armIndex, ret.radius)
            perp == Perpendicular(ret.armIndex)
            radial == Radial(ret.armIndex)
            side == IF ret.armIndex % 2 = 0 THEN 1 ELSE -1
            half == RoundDiv(side * ret.spacing, 2)
            dx == ret.value.x - center.x
            dz == ret.value.z - center.z
            other == calculateArmPosition(Partner(ret.armIndex), ret.radius, ret.spacing,
                                          ret.centerOnly)
        IN  IF ret.centerOnly \/ ret.spacing = 0
            THEN ret.value = center
            ELSE /\ ret.value.y = center.y
                 /\ dx = MulTrig(perp.x, half)
                 /\ dz = MulTrig(perp.z, half)
                 /\ perp.x * radial.x + perp.z * radial.z = 0
                 /\ Abs(dx * dx + dz * dz - half * half) <= 2 * Abs(half) + 1
                 /\ other.x - center.x = -dx
                 /\ other.z - center.z = -dz
                 /\ other # ret.value

\* An odd arm, placed off the center point of its tower.
C25_Witness ==
    /\ ret.op = "calculateArmPosition"
    /\ ret.armIndex % 2 = 1
    /\ ret.spacing > 0
    /\ ret.radius > 0
    /\ ~ret.centerOnly
    /\ ret.value # TowerCenter(ret.armIndex, ret.radius)

\* An arm asked for with centerOnly and a spacing, placed at the center point.
C25_WitnessCenterOnly ==
    /\ ret.op = "calculateArmPosition"
    /\ ret.centerOnly
    /\ ret.spacing # 0
    /\ ret.radius > 0
    /\ ret.value = TowerCenter(ret.armIndex, ret.radius)

----------------------------------------------------------------------------
\* floor((bot_radius + 50) / 5) + 1
CandidateBound == (config.bot_radius + Mm(50)) \div Mm(5) + 1

\* The search tests no radius larger than the first candidate that failed.
NoTestBeyondInfeasible ==
    Searching /\ ret.firstInfeasible # NoRadius => ret.largestTested <= ret.firstInfeasible

\* The search, once called, leaves its loop.
SearchTerminates == Searching ~> (Searching /\ ret.left)

C26_WitnessWholeRange ==
    /\ Searching
    /\ ret.left
    /\ ret.firstInfeasible = NoRadius
    /\ ret.tested = CandidateBound
    /\ ret.tested > 2

\* A frame whose range of candidates is empty: nothing is tested.
C26_WitnessNoCandidate ==
    /\ Searching
    /\ ret.left
    /\ ret.tested = 0
    /\ CandidateBound < 0

\* The loop run in steps ends with what the search run at once returns.
SearchStepsAgree ==
    Searching /\ ret.left =>
        ret.maxValidRadius = calculateCarriageConstrainedRadius(constraintCalculator)

----------------------------------------------------------------------------
\* C27: the owned calculator's constraint type is buildConfig.constraint_type
\* and its config is the facade's config, in every state reachable from the
\* constructor by updateConfig, updateBuildConfig and calculateBuildVolume.
C27_CalculatorFollowsFacade ==
    /\ constraintCalculator.constraintType = buildConfig.constraint_type
    /\ constraintCalculator.config = config

\* The half of it that the code keeps: the two configs are the same.
CalculatorConfigIsFacadeConfig == constraintCalculator.config = config

\* The calculator's type differs from the configured one only while nothing
\* has written it since the constructor, which sets it to effector-edge.
TypeDiffersOnlyAtDefault ==
    constraintCalculator.constraintType # buildConfig.constraint_type =>
        constraintCalculator.constraintType = "effector-edge"

----------------------------------------------------------------------------
\* C28: the position constrainPosition returns has three finite coordinates,
\* also when the limited point is out of reach of a tower's arm.
C28_ConstrainedIsFinite ==
    ret.op = "constrainPosition" =>
        /\ ~isNaN(ret.value.x)
        /\ ~isNaN(ret.value.y)
        /\ ~isNaN(ret.value.z)

\* What the code keeps: x and y are finite, and z is NaN only when a carriage
\* position of the returned x and y at the limited z is NaN.
OnlyZNaNWhenOutOfReach ==
    ret.op = "constrainPosition" =>
        /\ ~isNaN(ret.value.x)
        /\ ~isNaN(ret.value.y)
        /\ isNaN(ret.value.z) =>
              \E i \in Towers :
                  isNaN(calculateCarriagePositions(config,
                            [x |-> ret.value.x, y |-> ret.value.y,
                             z |-> clamp(ret.arg.z, MinZ(config), MaxZ(config))])[i + 1])

----------------------------------------------------------------------------
\* C29: with the timers firing and the frames running, a homing that has
\* started (homeState 1) gets through its states back to homeState 0 with the
\* timer of homeTimer cleared.
C29_HomingCompletes ==
    [](app.homeState = 1 => <>(app.homeState = 0 /\ app.homeTimer \notin app.timers))

\* C30: at most one interval timer is set at any time, and none while
\* homeState is 0.
C30_OneTimerNoneWhenIdle ==
    /\ Cardinality(app.timers) <= 1
    /\ app.homeState = 0 => app.timers = {}

\* Where homing stays: homeState 2, the effector's z held at the upper limit
\* of constrainPosition by the frames, further than 10 * m from 0.
HeldAwayFromAxis ==
    /\ app.homeState = 2
    /\ app.ticksSinceFrame = 0
    /\ app.effector.z = MaxZ(config)
    /\ app.effector.z < -Mm(5)

\* homeState goes from 1 to 2 and no further.
NeverPastSecondState == app.homeState \in {0, 1, 2}

====
